---------------------------- MODULE Spec2Model ----------------------------
(***************************************************************************)
(* Model of the EtherCAT master facade (EcMaster): the cyclic exchange     *)
(* with its ride-through counter, the PDI buffer with the variable         *)
(* mappings, the mailbox polling loop with its toggle bits, the emergency  *)
(* polling loop, close(), the driver's lock on the wire, requestState     *)
(* with the watchdog configuration, and discoverNetwork with its retries   *)
(* and the layout of the description it returns.                           *)
(*                                                                         *)
(* Numbers.  TLC integers are 32 bits wide, the program's values are up to *)
(* 64 bits wide.  A numeric value is therefore kept as sign and magnitude, *)
(* the magnitude as its eight base-256 digits, least significant first.    *)
(* All values (numbers, booleans, floats, undefined) are records of one    *)
(* shape so that any two of them can be compared, as === and !== can.      *)
(***************************************************************************)
EXTENDS Integers, Sequences, FiniteSets, TLC

VARIABLES
    eniConfig,          \* EcMaster.eniConfig: name of the network description
    initDone,           \* initialize() has completed successfully
    isClosed,           \* EcMaster.isClosed
    pdiBuffer,          \* EcMaster.pdiBuffer: [null, bytes]
    pdiView,            \* EcMaster.pdiView is non-null
    inputMappings,      \* EcMaster.inputMappings
    outputMappings,     \* EcMaster.outputMappings
    missedCycleCount,   \* EcMaster.missedCycleCount
    drvState,           \* what ethercrab_get_state() returns
    drvPdiSize,         \* what ethercrab_get_pdi_total_size() returns
    cyclePc,            \* position of the caller of runCycle: "idle" | "awaiting"
    lastCall,           \* result of the last completed runCycle call
    callParity,         \* flips at every completed runCycle call
    run,                \* history: the driver results of the current run of
                        \* consecutive runCycle calls with result -2 or -4
    runFromZero,        \* history: missedCycleCount was 0 when that run began
    prevMissed,         \* history: missedCycleCount before the last completed call
    mailboxPollingInterval, \* EcMaster.mailboxPollingInterval is set (timer armed)
    mailboxToggleBits,  \* EcMaster.mailboxToggleBits: slave index -> 0 | 1 | NoToggle
    mbTasks,            \* interval callbacks suspended in their driver call
    mbPolls,            \* history: per slave, the lastToggle arguments of its polls
    mbAllOnes,          \* history: per slave, every completed check returned 1
    mbLast,             \* history: the check that completed last
    mbFailedAt,         \* history: per slave, the polls issued when its latest
                        \* check returned -2
    mbEvents,           \* history: mailboxError events emitted
    emergencyPollingInterval, \* EcMaster.emergencyPollingInterval is set
    lastEmergencySlave, \* EcMaster.lastEmergencySlave: slaveId -> emergency
    emEvents,           \* history: emergency events emitted
    emLast,             \* history: what the last emergency read returned
    emReads,            \* history: number of emergency reads of the driver
    dlOpen,             \* the dynamic library handle EcMaster.dl is open
    closeCalls,         \* history: number of close() calls made
    closeLast,          \* history: how the last close() call ended
    closeOps,           \* history: what the close() calls have done outside
                        \* the master: timers cleared, driver and library calls
    onWire,             \* the driver operations that are using the wire
    rsPc,               \* position of the caller of requestState:
                        \* "idle" | "watchdog" | "request"
    rsCall,             \* the requestState call in progress: its locals
    smWatchdog,         \* per slave, the content of its register 0x0420
    rsLog,              \* history: the driver calls issued by the last call
    rsFailed,           \* history: the slaves whose write failed in that call
    rsLast,             \* history: how the last completed call ended
    rsCalls,            \* history: number of completed requestState calls
    stateEvents,        \* history: stateChange events emitted
    dscPc,              \* position of the caller of discoverNetwork:
                        \* "idle" | "scanning" | "waiting"
    dscAttempt,         \* the loop variable attempt of the call in progress
    dscLog,             \* history: driver calls and waits of the last call
    dscLast,            \* history: how the last completed call ended
    discovered,         \* the description the last call returned
    activeTimers,       \* the interval timers set and not cleared
    mbTimerId,          \* the timer mailboxPollingInterval holds, or NoTimer
    emTimerId,          \* the timer emergencyPollingInterval holds, or NoTimer
    timerCount,         \* the calls of setInterval so far
    running,            \* createCycleLoop: the flag of the controller
    loops,              \* the runCycleLoop() calls that have not ended: where each waits
    cycleCount,         \* the cycles counted by the controller
    lastWkc,            \* the last number cycleFn returned
    drvInitCmds,        \* the init commands the last ethercrab_init was given
    initCmdLog          \* history: the init commands the driver has executed
                        \* in that call, with the transition step of each

vars == << eniConfig, initDone, isClosed, pdiBuffer, pdiView, inputMappings,
           outputMappings, missedCycleCount, drvState, drvPdiSize, cyclePc,
           lastCall, callParity, run, runFromZero, prevMissed,
           mailboxPollingInterval, mailboxToggleBits, mbTasks, mbPolls,
           mbAllOnes, mbLast, mbFailedAt, mbEvents,
           emergencyPollingInterval, lastEmergencySlave, emEvents, emLast,
           emReads, dlOpen, closeCalls, closeLast, closeOps, onWire,
           rsPc, rsCall, smWatchdog, rsLog, rsFailed, rsLast, rsCalls,
           stateEvents, dscPc, dscAttempt, dscLog, dscLast, discovered,
           activeTimers, mbTimerId, emTimerId, timerCount,
           running, loops, cycleCount, lastWkc,
           drvInitCmds, initCmdLog >>

cycleVars == << pdiBuffer, pdiView, inputMappings, outputMappings,
                missedCycleCount, cyclePc, lastCall, callParity >>

historyVars == << run, runFromZero, prevMissed >>

mailboxVars == << mailboxPollingInterval, mailboxToggleBits, mbTasks, mbPolls,
                  mbAllOnes, mbLast, mbFailedAt, mbEvents >>

emergencyVars == << emergencyPollingInterval, lastEmergencySlave, emEvents,
                    emLast, emReads >>

closeVars == << dlOpen, closeCalls, closeLast, closeOps >>

wireVars == << onWire >>

requestVars == << rsPc, rsCall, smWatchdog, rsLog, rsFailed, rsLast, rsCalls,
                  stateEvents >>

discoveryVars == << dscPc, dscAttempt, dscLog, dscLast, discovered >>

timerVars == << activeTimers, mbTimerId, emTimerId, timerCount >>

initVars == << drvInitCmds, initCmdLog >>

loopVars == << running, loops, cycleCount, lastWkc >>

\* the master's fields and every history but the one of the init commands
nonInitVars ==
    << eniConfig, initDone, isClosed, drvState, drvPdiSize, cycleVars, historyVars,
       mailboxVars, emergencyVars, closeVars, wireVars, requestVars, discoveryVars,
       timerVars, loopVars >>

\* the master
masterVars ==
    << eniConfig, initDone, isClosed, drvState, drvPdiSize, cycleVars, historyVars,
       mailboxVars, emergencyVars, closeVars, wireVars, requestVars, discoveryVars,
       timerVars, initVars >>

-----------------------------------------------------------------------------
(* Bounds of the model *)

\* close() is called at most this many times
MaxCloses == 3

\* requestState is called at most this many times
MaxRequests == 2

\* the emergency loop reads the driver at most this many times
MaxEmReads == 3

\* runCycle is not called again once the counter has reached this value
MaxMissed == 7

\* at most this many interval callbacks are suspended in the driver at once
MaxMbTasks == 2

\* at most this many polls of one slave are recorded
MaxPolls == 3

-----------------------------------------------------------------------------
(* Program constants *)

MAX_MISSED_CYCLES == 5

\* enum SlaveState
INIT == 0
PRE_OP == 1
SAFE_OP == 2
OP == 3
SlaveState == {INIT, PRE_OP, SAFE_OP, OP}

\* "Default 2 (first run) if not set"
FirstRunToggle == 2

\* "Use minimum pollTime or default 20ms"
DefaultPollTime == 20

-----------------------------------------------------------------------------
(* Base-256 digit sequences, least significant digit first *)

Pow2(n) == 2 ^ n

Zeros(n) == [i \in 1..n |-> 0]

Pad8(ds) == [i \in 1..8 |-> IF i <= Len(ds) THEN ds[i] ELSE 0]

IsZero(ds) == \A i \in 1..Len(ds) : ds[i] = 0

\* a + b modulo 256^Len(a), both of the same length
AddDigits(a, b) ==
    LET n == Len(a)
        carry[i \in 0..n] ==
            IF i = 0 THEN 0
            ELSE IF a[i] + b[i] + carry[i - 1] > 255 THEN 1 ELSE 0
    IN  [i \in 1..n |-> (a[i] + b[i] + carry[i - 1]) % 256]

One(n) == [i \in 1..n |-> IF i = 1 THEN 1 ELSE 0]

\* two's complement negation within Len(ds) bytes
Negate(ds) == AddDigits([i \in 1..Len(ds) |-> 255 - ds[i]], One(Len(ds)))

\* index (0-based) of the highest set bit of a digit; -1 for 0
RECURSIVE TopBitOfByte(_, _)
TopBitOfByte(b, k) ==
    IF k < 0 THEN -1
    ELSE IF (b \div Pow2(k)) % 2 = 1 THEN k ELSE TopBitOfByte(b, k - 1)

RECURSIVE TopBitFrom(_, _)
TopBitFrom(ds, i) ==
    IF i = 0 THEN -1
    ELSE IF ds[i] # 0 THEN 8 * (i - 1) + TopBitOfByte(ds[i], 7)
    ELSE TopBitFrom(ds, i - 1)

TopBit(ds) == TopBitFrom(ds, Len(ds))

-----------------------------------------------------------------------------
(* Values: number | boolean | undefined of the program *)

Undefined == [kind |-> "undefined", neg |-> FALSE, exp |-> 0, mag |-> Zeros(8)]

Bool(b) == [kind |-> "boolean", neg |-> FALSE, exp |-> 0,
            mag |-> Pad8(<< IF b THEN 1 ELSE 0 >>)]

\* an integer number: sign and magnitude (no negative zero among integers)
Num(neg, ds) == [kind |-> "int", neg |-> neg /\ ~IsZero(ds), exp |-> 0,
                 mag |-> Pad8(ds)]

\* small integer literals, -255..255
Lit(n) == IF n < 0 THEN Num(TRUE, << -n >>) ELSE Num(FALSE, << n >>)

NaN == [kind |-> "nan", neg |-> FALSE, exp |-> 0, mag |-> Zeros(8)]

\* a float of the given width: sign, biased exponent field and fraction field
Float(kind, neg, e, frac) == [kind |-> kind, neg |-> neg, exp |-> e, mag |-> Pad8(frac)]


\* a === b on values (NaN is not equal to itself)
StrictEq(a, b) == a = b /\ a.kind # "nan"

\* Number(value) for the values the model passes: booleans become 0 or 1
NumberOf(v) == IF v.kind = "boolean" THEN Num(FALSE, << v.mag[1] >>) ELSE v

\* the n low bytes of an integer in two's complement (ToInt8/16/32, BigInt64)
TwosComplement(v, n) ==
    LET m == SubSeq(v.mag, 1, n)
    IN  IF v.neg THEN Negate(m) ELSE m

Unsigned(ds) == Num(FALSE, ds)

Signed(ds) == IF ds[Len(ds)] >= 128 THEN Num(TRUE, Negate(ds)) ELSE Num(FALSE, ds)

\* Number(bigint): the nearest double, ties to even (53 significant bits)
ToDouble(v) ==
    LET p == TopBit(v.mag)
    IN  IF p <= 52 THEN v
        ELSE LET s       == p - 52
                 low     == v.mag[1] + 256 * v.mag[2]
                 rem     == low % Pow2(s)
                 half    == Pow2(s - 1)
                 odd     == (low \div Pow2(s)) % 2 = 1
                 roundUp == rem > half \/ (rem = half /\ odd)
                 q       == low - rem
                 base    == [v.mag EXCEPT ![1] = q % 256, ![2] = q \div 256]
                 ulp     == [i \in 1..8 |-> IF i = 1 THEN Pow2(s) % 256
                                            ELSE IF i = 2 THEN Pow2(s) \div 256
                                            ELSE 0]
             IN  [v EXCEPT !.mag = IF roundUp THEN AddDigits(base, ulp) ELSE base]

-----------------------------------------------------------------------------
(* Uint8Array and DataView access; offset k is element k + 1 of the sequence *)

InRange(buffer, off, n) == off >= 0 /\ off + n <= Len(buffer)

\* buffer[off] ?? 0
ByteOr0(buffer, off) == IF InRange(buffer, off, 1) THEN buffer[off + 1] ELSE 0

\* the n bytes at off in order of significance, least significant first
GetBytes(buffer, off, n, littleEndian) ==
    [i \in 1..n |-> IF littleEndian THEN buffer[off + i] ELSE buffer[off + n + 1 - i]]

\* buffer with the digits ds (least significant first) stored at off
SetBytes(buffer, off, ds, littleEndian) ==
    LET n == Len(ds)
    IN  [k \in 1..Len(buffer) |->
            IF k > off /\ k <= off + n
            THEN IF littleEndian THEN ds[k - off] ELSE ds[n + 1 - (k - off)]
            ELSE buffer[k]]

\* DataView.getFloat32 on the 4 bytes ds
DecodeF32(ds) ==
    LET e    == (ds[4] % 128) * 2 + (ds[3] \div 128)
        frac == << ds[1], ds[2], ds[3] % 128 >>
    IN  IF e = 255 /\ ~IsZero(frac) THEN NaN
        ELSE Float("f32", ds[4] >= 128, e, frac)

\* DataView.getFloat64 on the 8 bytes ds
DecodeF64(ds) ==
    LET e    == (ds[8] % 128) * 16 + (ds[7] \div 16)
        frac == << ds[1], ds[2], ds[3], ds[4], ds[5], ds[6], ds[7] % 16 >>
    IN  IF e = 2047 /\ ~IsZero(frac) THEN NaN
        ELSE Float("f64", ds[8] >= 128, e, frac)

\* DataView.setFloat32 of a value that is a float32 (NaN is stored as 7FC00000)
EncodeF32(v) ==
    IF v.kind = "nan" THEN << 0, 0, 192, 127 >>
    ELSE << v.mag[1], v.mag[2], v.mag[3] + 128 * (v.exp % 2),
            (v.exp \div 2) + (IF v.neg THEN 128 ELSE 0) >>

\* DataView.setFloat64 of a double (NaN is stored as 7FF8000000000000)
EncodeF64(v) ==
    IF v.kind = "nan" THEN << 0, 0, 0, 0, 0, 0, 248, 127 >>
    ELSE << v.mag[1], v.mag[2], v.mag[3], v.mag[4], v.mag[5], v.mag[6],
            v.mag[7] + 16 * (v.exp % 16),
            (v.exp \div 16) + (IF v.neg THEN 128 ELSE 0) >>

-----------------------------------------------------------------------------
(* PdoMapping and the typed access to the PDI buffer *)

\* bitOffset of a mapping that has none (undefined)
NoBit == -1

DataViewTypes == {"SINT8", "INT16", "UINT16", "INT32", "UINT32", "REAL32",
                  "REAL64", "LREAL", "INT64"}

\* bytes a DataView accessor of the type touches
Width(dataType) ==
    CASE dataType \in {"INT16", "UINT16"} -> 2
      [] dataType \in {"INT32", "UINT32", "REAL32"} -> 4
      [] dataType \in {"REAL64", "LREAL", "INT64"} -> 8
      [] OTHER -> 1

IsBitAccess(mapping) == mapping.dataType = "BOOL" /\ mapping.bitOffset # NoBit

\* the DataView accessor of the mapping raises RangeError on this buffer
AccessThrows(buffer, mapping) ==
    /\ ~IsBitAccess(mapping)
    /\ mapping.dataType \in DataViewTypes
    /\ ~InRange(buffer, mapping.pdiByteOffset, Width(mapping.dataType))

readValueFromBuffer_BigEndian(buffer, mapping) ==
    LET off == mapping.pdiByteOffset
        t   == mapping.dataType
    IN  IF IsBitAccess(mapping)
        THEN Bool((ByteOr0(buffer, off) \div Pow2(mapping.bitOffset)) % 2 = 1)
        ELSE CASE t = "SINT8"  -> Signed(GetBytes(buffer, off, 1, FALSE))
               [] t = "INT16"  -> Signed(GetBytes(buffer, off, 2, FALSE))
               [] t = "UINT16" -> Unsigned(GetBytes(buffer, off, 2, FALSE))
               [] t = "INT32"  -> Signed(GetBytes(buffer, off, 4, FALSE))
               [] t = "UINT32" -> Unsigned(GetBytes(buffer, off, 4, FALSE))
               [] t = "REAL32" -> DecodeF32(GetBytes(buffer, off, 4, FALSE))
               [] t \in {"REAL64", "LREAL"} -> DecodeF64(GetBytes(buffer, off, 8, FALSE))
               [] t = "INT64"  -> ToDouble(Signed(GetBytes(buffer, off, 8, FALSE)))
               [] OTHER        -> Unsigned(<< ByteOr0(buffer, off) >>)

readValueFromBuffer(buffer, mapping) ==
    LET off == mapping.pdiByteOffset
        t   == mapping.dataType
    IN  IF IsBitAccess(mapping)
        THEN Bool((ByteOr0(buffer, off) \div Pow2(mapping.bitOffset)) % 2 = 1)
        ELSE CASE t = "SINT8"  -> Signed(GetBytes(buffer, off, 1, TRUE))
               [] t = "INT16"  -> Signed(GetBytes(buffer, off, 2, TRUE))
               [] t = "UINT16" -> Unsigned(GetBytes(buffer, off, 2, TRUE))
               [] t = "INT32"  -> Signed(GetBytes(buffer, off, 4, TRUE))
               [] t = "UINT32" -> Unsigned(GetBytes(buffer, off, 4, TRUE))
               [] t = "REAL32" -> DecodeF32(GetBytes(buffer, off, 4, TRUE))
               [] t \in {"REAL64", "LREAL"} -> DecodeF64(GetBytes(buffer, off, 8, TRUE))
               [] t = "INT64"  -> ToDouble(Signed(GetBytes(buffer, off, 8, TRUE)))
               [] OTHER        -> Unsigned(<< ByteOr0(buffer, off) >>)

\* buffer[off] = byte (a store outside a typed array is ignored)
StoreByte(buffer, off, byte) ==
    IF InRange(buffer, off, 1) THEN [buffer EXCEPT ![off + 1] = byte] ELSE buffer

\* a bit write that stores the mask, or 0, in the byte
writeValueToBuffer_StoreMask(buffer, mapping, value) ==
    StoreByte(buffer, mapping.pdiByteOffset,
              IF value = Bool(TRUE) \/ value = Lit(1)
              THEN Pow2(mapping.bitOffset) ELSE 0)

writeValueToBuffer(buffer, mapping, value) ==
    LET off == mapping.pdiByteOffset
        t   == mapping.dataType
        n   == NumberOf(value)
    IN  IF IsBitAccess(mapping)
        THEN LET currentByte == ByteOr0(buffer, off)
                 boolValue   == value = Bool(TRUE) \/ value = Lit(1)
                 mask        == Pow2(mapping.bitOffset)
                 isSet       == (currentByte \div mask) % 2 = 1
                 newByte     == IF boolValue
                                THEN (IF isSet THEN currentByte ELSE currentByte + mask)
                                ELSE (IF isSet THEN currentByte - mask ELSE currentByte)
             IN  StoreByte(buffer, off, newByte)
        ELSE CASE t = "SINT8"  -> SetBytes(buffer, off, TwosComplement(n, 1), TRUE)
               [] t = "UINT8"  -> StoreByte(buffer, off, TwosComplement(n, 1)[1])
               [] t \in {"INT16", "UINT16"} ->
                                  SetBytes(buffer, off, TwosComplement(n, 2), TRUE)
               [] t \in {"INT32", "UINT32"} ->
                                  SetBytes(buffer, off, TwosComplement(n, 4), TRUE)
               [] t = "REAL32" -> SetBytes(buffer, off, EncodeF32(n), TRUE)
               [] t \in {"REAL64", "LREAL"} ->
                                  SetBytes(buffer, off, EncodeF64(n), TRUE)
               [] t = "INT64"  -> SetBytes(buffer, off, TwosComplement(ToDouble(n), 8), TRUE)
               [] OTHER        -> StoreByte(buffer, off, TwosComplement(n, 1)[1])

-----------------------------------------------------------------------------
(* Network descriptions (EniConfig) *)

\* a numeric field that is undefined
NoVal == -1

MailboxStatusAddr == 2061   \* 0x080D

Slave(pd, mbx, coe) ==
    [hasProcessData    |-> pd.present,
     inputOffset       |-> pd.inputOffset,
     inputBitLength    |-> pd.inputBitLength,
     outputOffset      |-> pd.outputOffset,
     outputBitLength   |-> pd.outputBitLength,
     mailboxStatusAddr |-> IF mbx THEN MailboxStatusAddr ELSE NoVal,
     pollTime          |-> IF mbx THEN DefaultPollTime ELSE NoVal,
     supportsCoE       |-> coe]

NoProcessData == [present |-> FALSE, inputOffset |-> NoVal, inputBitLength |-> NoVal,
                  outputOffset |-> NoVal, outputBitLength |-> NoVal]

ProcessData(outOff, outBits, inOff, inBits) ==
    [present |-> TRUE, inputOffset |-> inOff, inputBitLength |-> inBits,
     outputOffset |-> outOff, outputBitLength |-> outBits]

Variable(name, dataType, bitSize, bitOffset) ==
    [name |-> name, dataType |-> dataType, bitSize |-> bitSize, bitOffset |-> bitOffset]

\* the description of the mailbox and ride-through tests, with a second
\* mailbox slave and a slave without mailbox: no process image variables
MOCK_ENI ==
    [slaves |-> << Slave(NoProcessData, TRUE, TRUE),
                   Slave(NoProcessData, TRUE, TRUE),
                   Slave(NoProcessData, FALSE, FALSE) >>,
     processImage |-> [present |-> TRUE,
                       outputs |-> [byteSize |-> 0, variables |-> << >>],
                       inputs  |-> [byteSize |-> 0, variables |-> << >>]]]

\* a slave with mailbox configuration and CoE, a CoE slave without mailbox
\* configuration, and a slave whose mailbox carries no CoE
MIXED_ENI ==
    [slaves |-> << Slave(NoProcessData, TRUE, TRUE),
                   Slave(NoProcessData, FALSE, TRUE),
                   Slave(NoProcessData, TRUE, FALSE) >>,
     processImage |-> [present |-> TRUE,
                       outputs |-> [byteSize |-> 0, variables |-> << >>],
                       inputs  |-> [byteSize |-> 0, variables |-> << >>]]]

\* a description with a process image: 2 output bytes and 8 input bytes on
\* two slaves, one input variable of every supported type
PDI_ENI ==
    [slaves |-> << Slave(ProcessData(0, 8, 0, 32), TRUE, TRUE),
                   Slave(ProcessData(1, 8, 4, 32), FALSE, FALSE) >>,
     processImage |->
        [present |-> TRUE,
         outputs |-> [byteSize |-> 2,
                      variables |-> << Variable("Out_Bool", "BOOL", 1, 3),
                                       Variable("Out_U8", "UINT8", 8, 8) >>],
         inputs  |-> [byteSize |-> 8,
                      variables |-> << Variable("In_Bool", "BOOL", 1, 5),
                                       Variable("In_U8", "UINT8", 8, 0),
                                       Variable("In_S8", "SINT8", 8, 8),
                                       Variable("In_U16", "UINT16", 16, 0),
                                       Variable("In_I16", "INT16", 16, 16),
                                       Variable("In_U32", "UINT32", 32, 0),
                                       Variable("In_I32", "INT32", 32, 32),
                                       Variable("In_R32", "REAL32", 32, 32),
                                       Variable("In_R64", "REAL64", 64, 0),
                                       Variable("In_LR", "LREAL", 64, 0),
                                       Variable("In_I64", "INT64", 64, 0) >>]]]

\* a slave with eight digital outputs, the bits of byte 1 of a two-byte
\* outputs half, and one input byte
BIT_ENI ==
    [slaves |-> << Slave(ProcessData(0, 16, 0, 8), FALSE, FALSE) >>,
     processImage |->
        [present |-> TRUE,
         outputs |-> [byteSize |-> 2,
                      variables |-> [b \in 1..8 |->
                                        Variable(<< "Out", b - 1 >>, "BOOL", 1, 7 + b)]],
         inputs  |-> [byteSize |-> 1, variables |-> << >>]]]

-----------------------------------------------------------------------------
(* The mapping engine (process-data-mapper) *)

\* index (0-based) of the first slave whose range holds the bit offset, or -1
RECURSIVE matchFrom(_, _, _, _)
matchFrom(bitOffset, isInput, slaves, i) ==
    IF i > Len(slaves) THEN -1
    ELSE LET slave      == slaves[i]
             byteOffset == IF isInput THEN slave.inputOffset ELSE slave.outputOffset
             bitLength  == IF isInput THEN slave.inputBitLength
                                      ELSE slave.outputBitLength
             startBit   == byteOffset * 8
             endBit     == startBit + bitLength
         IN  IF ~slave.hasProcessData \/ byteOffset = NoVal \/ bitLength = NoVal
             THEN matchFrom(bitOffset, isInput, slaves, i + 1)
             ELSE IF bitOffset >= startBit /\ bitOffset < endBit
                  THEN i - 1
                  ELSE matchFrom(bitOffset, isInput, slaves, i + 1)

\* the last slave whose range holds the bit offset is the owner
matchVariableToSlave_Last(bitOffset, isInput, slaves) ==
    LET hit(i) == matchFrom(bitOffset, isInput, slaves, i) = i - 1
        hits   == { i \in 1..Len(slaves) : hit(i) }
    IN  IF hits = {} THEN -1
        ELSE (CHOOSE i \in hits : \A j \in hits : j <= i) - 1

matchVariableToSlave(bitOffset, isInput, slaves) ==
    matchFrom(bitOffset, isInput, slaves, 1)

\* Map.set: replace the entry of that name in place, or append
MapSet(entries, e) ==
    IF \E k \in 1..Len(entries) : entries[k].variableName = e.variableName
    THEN [k \in 1..Len(entries) |->
             IF entries[k].variableName = e.variableName THEN e ELSE entries[k]]
    ELSE Append(entries, e)

\* the byte offset of an input is taken within the inputs half
MappingOf_WithinHalf(v, isInput, outputSize, slaveIndex) ==
    [variableName  |-> v.name,
     pdiByteOffset |-> v.bitOffset \div 8,
     bitOffset     |-> IF v.dataType = "BOOL" THEN v.bitOffset % 8 ELSE NoBit,
     dataType      |-> v.dataType,
     slaveIndex    |-> slaveIndex + 1,
     isInput       |-> isInput,
     bitSize       |-> v.bitSize,
     currentValue  |-> Undefined,
     newValue      |-> Undefined]

MappingOf(v, isInput, outputSize, slaveIndex) ==
    [variableName  |-> v.name,
     pdiByteOffset |-> (IF isInput THEN outputSize ELSE 0) + (v.bitOffset \div 8),
     bitOffset     |-> IF v.dataType = "BOOL" THEN v.bitOffset % 8 ELSE NoBit,
     dataType      |-> v.dataType,
     slaveIndex    |-> slaveIndex + 1,
     isInput       |-> isInput,
     bitSize       |-> v.bitSize,
     currentValue  |-> Undefined,
     newValue      |-> Undefined]

RECURSIVE addVariables(_, _, _, _, _)
addVariables(mappings, variables, isInput, cfg, k) ==
    IF k > Len(variables) THEN mappings
    ELSE LET v          == variables[k]
             slaveIndex == matchVariableToSlave(v.bitOffset, isInput, cfg.slaves)
             next       == IF slaveIndex >= 0
                           THEN MapSet(mappings,
                                       MappingOf(v, isInput,
                                                 cfg.processImage.outputs.byteSize,
                                                 slaveIndex))
                           ELSE mappings
         IN  addVariables(next, variables, isInput, cfg, k + 1)

\* the entries of the returned Map, in insertion order
buildProcessDataMappings(cfg) ==
    IF ~cfg.processImage.present THEN << >>
    ELSE addVariables(
             addVariables(<< >>, cfg.processImage.outputs.variables, FALSE, cfg, 1),
             cfg.processImage.inputs.variables, TRUE, cfg, 1)

SelectSeqBy(seq, wantInput) ==
    LET F[k \in 0..Len(seq)] ==
            IF k = 0 THEN << >>
            ELSE IF seq[k].isInput = wantInput THEN Append(F[k - 1], seq[k])
            ELSE F[k - 1]
    IN  F[Len(seq)]

\* optimizeMappings: the input and the output mappings, in Map order
optimizedInputs(processDataMappings) == SelectSeqBy(processDataMappings, TRUE)
optimizedOutputs(processDataMappings) == SelectSeqBy(processDataMappings, FALSE)

\* the PDI size the driver reports in the state st, size being the size of
\* the image it has laid out: "PDI size is known at these states" (SafeOp, Op)
DriverPdiSize(size, st) == IF st \in {SAFE_OP, OP} THEN size ELSE 0

\* the sizes of the image the driver can have laid out on the bus it found:
\* the size of the described process image, or an image that lacks the last
\* bytes of the described inputs
DriverImageSizes(cfg) ==
    LET total == cfg.processImage.outputs.byteSize + cfg.processImage.inputs.byteSize
    IN  IF ~cfg.processImage.present \/ total = 0 THEN {0}
        ELSE {total, total - (cfg.processImage.inputs.byteSize \div 2)}

-----------------------------------------------------------------------------
(* The PDI buffer *)

NullBuffer == [null |-> TRUE, bytes |-> << >>]

\* updatePdiBuffer: a view of totalSize bytes on the driver's memory.  The
\* memory is shared, so a buffer already viewed keeps its bytes; the driver
\* hands out a non-null pointer exactly when its size is positive.
updatePdiBuffer(buffer, totalSize) ==
    IF totalSize > 0
    THEN [buffer |-> [null |-> FALSE,
                      bytes |-> IF Len(buffer.bytes) = totalSize THEN buffer.bytes
                                ELSE Zeros(totalSize)],
          view |-> TRUE]
    ELSE [buffer |-> [null |-> FALSE, bytes |-> << >>], view |-> FALSE]

-----------------------------------------------------------------------------
(* runCycle *)

\* a cycle that writes no output
writeOutputs_None(bytes, mappings, k) ==
    [bytes |-> bytes, mappings |-> mappings, thrown |-> FALSE]

\* step 2 of runCycle, "Write Outputs", from mapping k on: the buffer and the
\* mappings after the loop, and whether a DataView store raised
RECURSIVE writeOutputs(_, _, _)
writeOutputs(bytes, mappings, k) ==
    IF k > Len(mappings)
    THEN [bytes |-> bytes, mappings |-> mappings, thrown |-> FALSE]
    ELSE LET mapping == mappings[k]
         IN  IF mapping.newValue # Undefined
                /\ ~StrictEq(mapping.newValue, mapping.currentValue)
             THEN IF AccessThrows(bytes, mapping)
                  THEN [bytes |-> bytes, mappings |-> mappings, thrown |-> TRUE]
                  ELSE writeOutputs(
                           writeValueToBuffer(bytes, mapping, mapping.newValue),
                           [mappings EXCEPT ![k].currentValue = mapping.newValue],
                           k + 1)
             ELSE writeOutputs(bytes, mappings, k + 1)

\* step 6 of runCycle, "Read Inputs", from mapping k on
RECURSIVE readInputs(_, _, _)
readInputs(bytes, mappings, k) ==
    IF k > Len(mappings)
    THEN [mappings |-> mappings, thrown |-> FALSE]
    ELSE IF AccessThrows(bytes, mappings[k])
         THEN [mappings |-> mappings, thrown |-> TRUE]
         ELSE readInputs(
                  bytes,
                  [mappings EXCEPT
                      ![k].currentValue = readValueFromBuffer(bytes, mappings[k])],
                  k + 1)

Returned(wkc) ==
    [outcome |-> "return", value |-> wkc, error |-> "none", message |-> "none",
     code |-> 0]

Thrown(error, message, code) ==
    [outcome |-> "throw", value |-> 0, error |-> error, message |-> message,
     code |-> code]

\* Variants of the ride-through policy, against which the properties below
\* are checked: the policy with its decisions as the fields of p
rideThroughWith(count, wkc, p) ==
    LET timeoutCount  == count + 1
        mismatchCount == IF p.shared THEN count + 1 ELSE count
    IN  IF wkc < 0
        THEN IF wkc = -2
             THEN IF timeoutCount >= p.limit
                  THEN [count |-> timeoutCount, readInputs |-> FALSE,
                        result |-> Thrown("FfiError", p.timeoutMessage, wkc)]
                  ELSE [count |-> timeoutCount, readInputs |-> FALSE,
                        result |-> Returned(wkc)]
             ELSE IF wkc = -4
             THEN IF mismatchCount >= p.limit
                  THEN [count |-> mismatchCount, readInputs |-> FALSE,
                        result |-> Thrown(p.mismatchError, "WKC mismatch", wkc)]
                  ELSE [count |-> mismatchCount, readInputs |-> p.readOnMismatch,
                        result |-> Returned(wkc)]
             ELSE [count |-> IF p.otherResets THEN 0 ELSE count, readInputs |-> FALSE,
                   result |-> Thrown("FfiError", "Cyclic task failed", wkc)]
        ELSE [count |-> IF p.reset THEN 0 ELSE count, readInputs |-> TRUE,
              result |-> Returned(wkc)]

AsCoded ==
    [limit |-> 5, shared |-> TRUE, timeoutMessage |-> "Critical Network Failure",
     mismatchError |-> "PdoIntegrityError", readOnMismatch |-> FALSE,
     otherResets |-> FALSE, reset |-> TRUE]

\* the sixth consecutive cycle is the first to raise
rideThrough_SixthRaises(count, wkc) ==
    rideThroughWith(count, wkc, [AsCoded EXCEPT !.limit = 6])

\* a timeout escalates with the message of the other fatal codes
rideThrough_PlainFailure(count, wkc) ==
    rideThroughWith(count, wkc, [AsCoded EXCEPT !.timeoutMessage = "Cyclic task failed"])

\* a successful cycle leaves the counter alone
rideThrough_NoReset(count, wkc) ==
    rideThroughWith(count, wkc, [AsCoded EXCEPT !.reset = FALSE])

\* only timeouts advance the counter
rideThrough_TimeoutsOnly(count, wkc) ==
    rideThroughWith(count, wkc, [AsCoded EXCEPT !.shared = FALSE])

\* every escalation raises the error of a timeout
rideThrough_OneKind(count, wkc) ==
    rideThroughWith(count, wkc, [AsCoded EXCEPT !.mismatchError = "FfiError"])

\* another fatal code clears the counter
rideThrough_OtherResets(count, wkc) ==
    rideThroughWith(count, wkc, [AsCoded EXCEPT !.otherResets = TRUE])

\* the inputs are parsed on a working-counter mismatch that is ridden through
rideThrough_ReadOnMismatch(count, wkc) ==
    rideThroughWith(count, wkc, [AsCoded EXCEPT !.readOnMismatch = TRUE])

\* step 4 and 5 of runCycle: the counter after the driver result wkc, and
\* what the call does with it; readInputs tells whether step 6 follows
rideThrough(count, wkc) ==
    IF wkc < 0
    THEN IF wkc = -2
         THEN IF count + 1 >= MAX_MISSED_CYCLES
              THEN [count |-> count + 1, readInputs |-> FALSE,
                    result |-> Thrown("FfiError", "Critical Network Failure", wkc)]
              ELSE [count |-> count + 1, readInputs |-> FALSE, result |-> Returned(wkc)]
         ELSE IF wkc = -4
         THEN IF count + 1 >= MAX_MISSED_CYCLES
              THEN [count |-> count + 1, readInputs |-> FALSE,
                    result |-> Thrown("PdoIntegrityError", "WKC mismatch", wkc)]
              ELSE [count |-> count + 1, readInputs |-> FALSE, result |-> Returned(wkc)]
         ELSE [count |-> count, readInputs |-> FALSE,
               result |-> Thrown("FfiError", "Cyclic task failed", wkc)]
    ELSE [count |-> 0, readInputs |-> TRUE, result |-> Returned(wkc)]

\* the record of a completed call
Call(driverCalled, wkc, result) ==
    [driverCalled |-> driverCalled, wkc |-> wkc, outcome |-> result.outcome,
     value |-> result.value, error |-> result.error, message |-> result.message,
     code |-> result.code]

NoCall == Call(FALSE, 0, [outcome |-> "none", value |-> 0, error |-> "none",
                          message |-> "none", code |-> 0])

\* runCycle up to the await of ethercrab_cyclic_tx_rx
RunCycleBegin ==
    /\ cyclePc = "idle"
    /\ missedCycleCount < MaxMissed
    /\ LET refetch == (pdiBuffer.null \/ Len(pdiBuffer.bytes) = 0)
                      /\ drvState \in {SAFE_OP, OP}
           pdi     == IF refetch THEN updatePdiBuffer(pdiBuffer, drvPdiSize)
                      ELSE [buffer |-> pdiBuffer, view |-> pdiView]
           out     == IF pdi.view /\ ~pdi.buffer.null
                      THEN writeOutputs(pdi.buffer.bytes, outputMappings, 1)
                      ELSE [bytes |-> pdi.buffer.bytes, mappings |-> outputMappings,
                            thrown |-> FALSE]
       IN  /\ pdiBuffer' = [pdi.buffer EXCEPT !.bytes = out.bytes]
           /\ pdiView' = pdi.view
           /\ outputMappings' = out.mappings
           /\ IF out.thrown
              THEN /\ cyclePc' = "idle"
                   /\ lastCall' = Call(FALSE, 0, Thrown("RangeError", "none", 0))
                   /\ callParity' = 1 - callParity
              ELSE /\ cyclePc' = "awaiting"
                   /\ UNCHANGED << lastCall, callParity >>
    /\ UNCHANGED << eniConfig, initDone, isClosed, inputMappings, missedCycleCount,
                    drvState, drvPdiSize >>
    /\ UNCHANGED historyVars
    /\ UNCHANGED mailboxVars
    /\ UNCHANGED emergencyVars
    /\ UNCHANGED closeVars
    /\ UNCHANGED wireVars
    /\ UNCHANGED requestVars
    /\ UNCHANGED discoveryVars
    /\ UNCHANGED loopVars
    /\ UNCHANGED timerVars
    /\ UNCHANGED initVars

\* the bytes after the driver has stored the frame in the inputs half
\* (an empty frame: the driver has not touched the buffer)
DriverStore(bytes, outputSize, frame) ==
    [k \in 1..Len(bytes) |->
        IF k > outputSize /\ k - outputSize <= Len(frame)
        THEN frame[k - outputSize] ELSE bytes[k]]

\* runCycle from the driver's result on
RunCycleEnd(wkc, frame) ==
    /\ cyclePc = "awaiting"
    /\ LET bytes  == DriverStore(pdiBuffer.bytes,
                                 eniConfig.processImage.outputs.byteSize, frame)
           rt     == rideThrough(missedCycleCount, wkc)
           in     == IF rt.readInputs /\ pdiView /\ ~pdiBuffer.null
                     THEN readInputs(bytes, inputMappings, 1)
                     ELSE [mappings |-> inputMappings, thrown |-> FALSE]
           result == IF in.thrown THEN Thrown("RangeError", "none", 0) ELSE rt.result
       IN  /\ pdiBuffer' = [pdiBuffer EXCEPT !.bytes = bytes]
           /\ missedCycleCount' = rt.count
           /\ inputMappings' = in.mappings
           /\ lastCall' = Call(TRUE, wkc, result)
    /\ cyclePc' = "idle"
    /\ callParity' = 1 - callParity
    /\ UNCHANGED << eniConfig, initDone, isClosed, pdiView, outputMappings,
                    drvState, drvPdiSize >>
    /\ UNCHANGED mailboxVars
    /\ UNCHANGED emergencyVars
    /\ UNCHANGED closeVars
    /\ UNCHANGED requestVars
    /\ UNCHANGED discoveryVars
    /\ UNCHANGED loopVars
    /\ UNCHANGED timerVars
    /\ UNCHANGED initVars

\* the histories of the runCycle calls, kept beside a call with result wkc
ObserveCall(wkc) ==
    /\ Len(run) <= MaxMissed
    /\ run' = IF wkc \in {-2, -4} THEN Append(run, wkc) ELSE << >>
    /\ runFromZero' = IF wkc \in {-2, -4} THEN runFromZero ELSE missedCycleCount' = 0
    /\ prevMissed' = missedCycleCount

\* the user stores a pending value in an output mapping (mapping.newValue = v)
SetNewValue(k, v) ==
    /\ k \in 1..Len(outputMappings)
    /\ outputMappings[k].newValue # v
    /\ outputMappings' = [outputMappings EXCEPT ![k].newValue = v]
    /\ UNCHANGED << eniConfig, initDone, isClosed, pdiBuffer, pdiView,
                    inputMappings, missedCycleCount, drvState, drvPdiSize, cyclePc,
                    lastCall, callParity >>
    /\ UNCHANGED historyVars
    /\ UNCHANGED mailboxVars
    /\ UNCHANGED emergencyVars
    /\ UNCHANGED closeVars
    /\ UNCHANGED wireVars
    /\ UNCHANGED requestVars
    /\ UNCHANGED discoveryVars
    /\ UNCHANGED loopVars
    /\ UNCHANGED timerVars
    /\ UNCHANGED initVars

\* user code stores the byte b at the index k of the array that
\* getProcessDataBuffer() returned: the array is the master's pdiBuffer
DirectWrite(k, b) ==
    /\ ~pdiBuffer.null
    /\ k \in 0..(Len(pdiBuffer.bytes) - 1)
    /\ pdiBuffer.bytes[k + 1] # b
    /\ pdiBuffer' = [pdiBuffer EXCEPT !.bytes[k + 1] = b]
    /\ UNCHANGED << eniConfig, initDone, isClosed, pdiView, inputMappings,
                    outputMappings, missedCycleCount, drvState, drvPdiSize, cyclePc,
                    lastCall, callParity >>
    /\ UNCHANGED << historyVars, mailboxVars, emergencyVars, closeVars, wireVars,
                    requestVars, discoveryVars, timerVars, initVars, loopVars >>

-----------------------------------------------------------------------------
(* Mailbox polling *)

\* mailboxToggleBits.get(index) of a slave that has no entry
NoToggle == -1

SlaveIndexes(cfg) == 0..(Len(cfg.slaves) - 1)

\* the indexes of the slaves with mailbox configuration, in slave order
mailboxSlaves(cfg) ==
    LET F[k \in 0..Len(cfg.slaves)] ==
            IF k = 0 THEN << >>
            ELSE IF cfg.slaves[k].mailboxStatusAddr # NoVal
                    /\ cfg.slaves[k].pollTime # NoVal
                 THEN Append(F[k - 1], k - 1)
                 ELSE F[k - 1]
    IN  F[Len(cfg.slaves)]

\* startMailboxPolling: the timer is armed iff some slave has a mailbox
startMailboxPolling(cfg) == Len(mailboxSlaves(cfg)) > 0

\* one iteration of the loop of the interval callback, up to its await: the
\* callback reads the stored toggle, calls the driver and is suspended
PollSlave(tasks, pos) ==
    LET index      == mailboxSlaves(eniConfig)[pos]
        lastToggle == IF mailboxToggleBits[index] = NoToggle THEN FirstRunToggle
                      ELSE mailboxToggleBits[index]
    IN  /\ Len(mbPolls[index]) < MaxPolls
        /\ mbPolls' = [mbPolls EXCEPT ![index] = Append(@, lastToggle)]
        /\ mbTasks' = Append(tasks, [pos |-> pos, lastToggle |-> lastToggle])

\* the loops never look at the closed flag
pollAborted_Never(closed) == FALSE

\* "if (this.isClosed) return", "if (this.isClosed) break": the periodic
\* loops test the flag before they call the driver
pollAborted(closed) == closed

\* the interval timer fires
MailboxTick ==
    /\ mailboxPollingInterval
    /\ Len(mbTasks) < MaxMbTasks
    /\ IF pollAborted(isClosed)
       THEN UNCHANGED << mbPolls, mbTasks >>
       ELSE PollSlave(mbTasks, 1)
    /\ UNCHANGED << mailboxPollingInterval, mailboxToggleBits, mbAllOnes, mbLast,
                    mbFailedAt, mbEvents >>
    /\ UNCHANGED << eniConfig, initDone, isClosed, drvState, drvPdiSize >>
    /\ UNCHANGED cycleVars
    /\ UNCHANGED historyVars
    /\ UNCHANGED emergencyVars
    /\ UNCHANGED closeVars
    /\ UNCHANGED wireVars
    /\ UNCHANGED requestVars
    /\ UNCHANGED discoveryVars
    /\ UNCHANGED loopVars
    /\ UNCHANGED timerVars
    /\ UNCHANGED initVars

RemoveAt(seq, t) == [k \in 1..(Len(seq) - 1) |-> IF k < t THEN seq[k] ELSE seq[k + 1]]

\* "Simple flip"
newToggle(lastToggle) == IF lastToggle = 0 THEN 1 ELSE 0

MailboxError(index, error, result) ==
    [slaveIndex |-> index, error |-> error, code |-> result]

\* a retry failure flips the toggle like new mail, and is not reported
checkResult_FlipOnRetryFailure(toggles, events, index, lastToggle, result) ==
    IF result = 1 \/ result = -2
    THEN [toggles |-> [toggles EXCEPT ![index] = newToggle(lastToggle)],
          events  |-> events]
    ELSE IF result < 0
    THEN [toggles |-> toggles,
          events  |-> Append(events, MailboxError(index, "Mailbox check failed", result))]
    ELSE [toggles |-> toggles, events |-> events]

\* what the callback does with the result of the check of the slave: the
\* stored toggles and the events emitted afterwards
checkResult(toggles, events, index, lastToggle, result) ==
    IF result = 1
    THEN [toggles |-> [toggles EXCEPT ![index] = newToggle(lastToggle)],
          events  |-> events]
    ELSE IF result = -2
    THEN [toggles |-> toggles,
          events  |-> Append(events,
                             MailboxError(index, "Resilient read failed after retries",
                                          result))]
    ELSE IF result < 0
    THEN [toggles |-> toggles,
          events  |-> Append(events, MailboxError(index, "Mailbox check failed", result))]
    ELSE [toggles |-> toggles, events |-> events]

\* the driver call of the suspended callback t completes: with result, or
\* (rejected) by raising
MailboxResume(t, result, rejected) ==
    /\ t \in 1..Len(mbTasks)
    /\ LET task  == mbTasks[t]
           index == mailboxSlaves(eniConfig)[task.pos]
           rest  == RemoveAt(mbTasks, t)
           more  == task.pos < Len(mailboxSlaves(eniConfig))
           done  == IF rejected
                    THEN [toggles |-> mailboxToggleBits, events |-> mbEvents]
                    ELSE checkResult(mailboxToggleBits, mbEvents, index,
                                     task.lastToggle, result)
       IN  IF ~rejected /\ pollAborted(isClosed)
           THEN /\ mbTasks' = rest
                /\ UNCHANGED << mailboxToggleBits, mbEvents, mbPolls >>
           ELSE /\ mailboxToggleBits' = done.toggles
                /\ mbEvents' = done.events
                /\ IF more /\ ~pollAborted(isClosed)
                   THEN LET nextIndex  == mailboxSlaves(eniConfig)[task.pos + 1]
                            stored     == IF nextIndex = index
                                          THEN mailboxToggleBits'[nextIndex]
                                          ELSE mailboxToggleBits[nextIndex]
                            lastToggle == IF stored = NoToggle THEN FirstRunToggle
                                          ELSE stored
                        IN  /\ Len(mbPolls[nextIndex]) < MaxPolls
                            /\ mbPolls' = [mbPolls EXCEPT
                                              ![nextIndex] = Append(@, lastToggle)]
                            /\ mbTasks' = Append(rest, [pos |-> task.pos + 1,
                                                        lastToggle |-> lastToggle])
                   ELSE /\ mbTasks' = rest
                        /\ UNCHANGED mbPolls
    /\ mbAllOnes' = [mbAllOnes EXCEPT
                         ![mailboxSlaves(eniConfig)[mbTasks[t].pos]] =
                             @ /\ ~rejected /\ result = 1]
    /\ mbLast' = [index    |-> mailboxSlaves(eniConfig)[mbTasks[t].pos],
                  pos      |-> mbTasks[t].pos,
                  result   |-> result,
                  rejected |-> rejected,
                  flip     |-> 1 - mbLast.flip]
    /\ mbFailedAt' = IF ~rejected /\ result = -2
                     THEN [mbFailedAt EXCEPT
                              ![mailboxSlaves(eniConfig)[mbTasks[t].pos]] =
                                  Len(mbPolls[mailboxSlaves(eniConfig)[mbTasks[t].pos]])]
                     ELSE mbFailedAt
    /\ UNCHANGED << mailboxPollingInterval >>
    /\ UNCHANGED << eniConfig, initDone, isClosed, drvState, drvPdiSize >>
    /\ UNCHANGED cycleVars
    /\ UNCHANGED historyVars
    /\ UNCHANGED emergencyVars
    /\ UNCHANGED closeVars
    /\ UNCHANGED requestVars
    /\ UNCHANGED discoveryVars
    /\ UNCHANGED loopVars
    /\ UNCHANGED timerVars
    /\ UNCHANGED initVars

-----------------------------------------------------------------------------
(* Emergency polling *)

Emergency(slaveId, errorCode, errorReg) ==
    [slaveId |-> slaveId, errorCode |-> errorCode, errorReg |-> errorReg]

\* getLastEmergency() returns null; lastEmergencySlave.get() finds no entry
NoEmergency == Emergency(NoVal, NoVal, NoVal)

\* the slave ids an emergency can carry: those of the slaves and one beyond
EmergencySlaveIds(cfg) == 0..Len(cfg.slaves)

\* coeSlaves.some((s) => s.index === slaveId)
isCoeSlave(cfg, slaveId) ==
    \E i \in SlaveIndexes(cfg) : cfg.slaves[i + 1].supportsCoE /\ i = slaveId

\* startEmergencyPolling: the timer is armed iff some slave supports CoE
startEmergencyPolling(cfg) ==
    \E i \in SlaveIndexes(cfg) : cfg.slaves[i + 1].supportsCoE

\* the emergency of any slave id is reported
emergencyStep_AnySlave(cfg, last, events, emergency) ==
    IF emergency # NoEmergency
       /\ (\/ last[emergency.slaveId] = NoEmergency
           \/ last[emergency.slaveId].errorCode # emergency.errorCode
           \/ last[emergency.slaveId].errorReg # emergency.errorReg)
    THEN [last   |-> [last EXCEPT ![emergency.slaveId] = emergency],
          events |-> Append(events, emergency)]
    ELSE [last |-> last, events |-> events]

\* every emergency of a CoE slave is reported
emergencyStep_EveryRead(cfg, last, events, emergency) ==
    IF emergency # NoEmergency /\ isCoeSlave(cfg, emergency.slaveId)
    THEN [last   |-> [last EXCEPT ![emergency.slaveId] = emergency],
          events |-> Append(events, emergency)]
    ELSE [last |-> last, events |-> events]

\* a read that finds no emergency clears the records
emergencyStep_ClearOnNone(cfg, last, events, emergency) ==
    IF emergency = NoEmergency
    THEN [last |-> [i \in DOMAIN last |-> NoEmergency], events |-> events]
    ELSE IF /\ isCoeSlave(cfg, emergency.slaveId)
            /\ (\/ last[emergency.slaveId] = NoEmergency
                \/ last[emergency.slaveId].errorCode # emergency.errorCode
                \/ last[emergency.slaveId].errorReg # emergency.errorReg)
    THEN [last   |-> [last EXCEPT ![emergency.slaveId] = emergency],
          events |-> Append(events, emergency)]
    ELSE [last |-> last, events |-> events]

\* what the interval callback does with the emergency it has read: the
\* records of the slaves and the events emitted afterwards
emergencyStep(cfg, last, events, emergency) ==
    IF emergency # NoEmergency
       /\ isCoeSlave(cfg, emergency.slaveId)
       /\ (\/ last[emergency.slaveId] = NoEmergency
           \/ last[emergency.slaveId].errorCode # emergency.errorCode
           \/ last[emergency.slaveId].errorReg # emergency.errorReg)
    THEN [last   |-> [last EXCEPT ![emergency.slaveId] = emergency],
          events |-> Append(events, emergency)]
    ELSE [last |-> last, events |-> events]

\* the interval timer fires; read is what getLastEmergency() returns
EmergencyTick(read) ==
    /\ emergencyPollingInterval
    /\ emReads < MaxEmReads
    /\ IF pollAborted(isClosed)
       THEN UNCHANGED << lastEmergencySlave, emEvents, emLast, emReads >>
       ELSE LET done == emergencyStep(eniConfig, lastEmergencySlave, emEvents, read)
            IN  /\ lastEmergencySlave' = done.last
                /\ emEvents' = done.events
                /\ emLast' = [read |-> read, flip |-> 1 - emLast.flip]
                /\ emReads' = emReads + 1
    /\ UNCHANGED << eniConfig, initDone, isClosed, drvState, drvPdiSize,
                    emergencyPollingInterval >>
    /\ UNCHANGED cycleVars
    /\ UNCHANGED historyVars
    /\ UNCHANGED mailboxVars
    /\ UNCHANGED closeVars
    /\ UNCHANGED requestVars
    /\ UNCHANGED discoveryVars
    /\ UNCHANGED loopVars
    /\ UNCHANGED timerVars
    /\ UNCHANGED initVars

-----------------------------------------------------------------------------
(* the interval timers of the two poll loops *)

MaxTimers == 4

\* the value of a timer field that is undefined
NoTimer == 0

\* a stop that forgets the timer without clearing it
stopPolling_Forget(tm) == [tm EXCEPT !.field = NoTimer]

\* stopMailboxPolling(), stopEmergencyPolling(): the timer of the field is
\* cleared when the field is defined, and the field is undefined afterwards.
\* tm is the field, the active timers and the count of setInterval calls.
stopPolling(tm) ==
    IF tm.field # NoTimer
    THEN [tm EXCEPT !.field = NoTimer, !.active = @ \ {tm.field}]
    ELSE tm

\* startMailboxPolling(), startEmergencyPolling(): the stop first, then,
\* when there are slaves to poll, setInterval and the store into the field
startPolling(tm, slavesToPoll) ==
    LET stopped == stopPolling(tm)
        timer   == stopped.count + 1
    IN  IF ~slavesToPoll THEN stopped
        ELSE [field |-> timer, active |-> stopped.active \cup {timer},
              count |-> timer]

\* the two starts of initialize(), the mailbox timer first
startBoth(cfg, active, mbField, emField, count) ==
    LET mb == startPolling([field |-> mbField, active |-> active, count |-> count],
                           startMailboxPolling(cfg))
        em == startPolling([field |-> emField, active |-> mb.active, count |-> mb.count],
                           startEmergencyPolling(cfg))
    IN  [mb |-> mb.field, em |-> em.field, active |-> em.active, count |-> em.count]

\* the two stops of close(), the mailbox timer first
stopBoth(active, mbField, emField, count) ==
    LET mb == stopPolling([field |-> mbField, active |-> active, count |-> count])
        em == stopPolling([field |-> emField, active |-> mb.active, count |-> mb.count])
    IN  [mb |-> mb.field, em |-> em.field, active |-> em.active, count |-> em.count]

-----------------------------------------------------------------------------
(* close *)

\* clearInterval for each timer that is armed
cleared(mailboxTimer, emergencyTimer) ==
    (IF mailboxTimer THEN << "clearInterval" >> ELSE << >>)
        \o (IF emergencyTimer THEN << "clearInterval" >> ELSE << >>)

\* close() that does not look at isClosed
close_Again(m, destroyThrows, releaseThrows) ==
    [isClosed       |-> TRUE,
     mailboxTimer   |-> FALSE,
     emergencyTimer |-> FALSE,
     ops            |-> cleared(m.mailboxTimer, m.emergencyTimer)
                            \o << "ethercrab_destroy", "dl.close" >>,
     dlOpen         |-> IF releaseThrows THEN m.dlOpen ELSE FALSE,
     buffer         |-> IF releaseThrows THEN m.buffer ELSE NullBuffer,
     view           |-> IF releaseThrows THEN m.view ELSE FALSE,
     outcome        |-> IF releaseThrows THEN "thrown" ELSE "returned"]

\* close() on the master m: the master afterwards, what the call has done
\* outside it (ops) and how it ended.  The call of ethercrab_destroy is
\* inside try/catch, dl.close() is after it: when the release of the library
\* throws, the call ends there.
close(m, destroyThrows, releaseThrows) ==
    IF m.isClosed
    THEN [m EXCEPT !.ops = << >>, !.outcome = "returned"]
    ELSE [isClosed       |-> TRUE,
          mailboxTimer   |-> FALSE,
          emergencyTimer |-> FALSE,
          ops            |-> cleared(m.mailboxTimer, m.emergencyTimer)
                                 \o << "ethercrab_destroy", "dl.close" >>,
          dlOpen         |-> IF releaseThrows THEN m.dlOpen ELSE FALSE,
          buffer         |-> IF releaseThrows THEN m.buffer ELSE NullBuffer,
          view           |-> IF releaseThrows THEN m.view ELSE FALSE,
          outcome        |-> IF releaseThrows THEN "thrown" ELSE "returned"]

\* a call of close(); destroyThrows: the call of the driver's destroy raises,
\* releaseThrows: the release of the library raises
Close(destroyThrows, releaseThrows) ==
    /\ closeCalls < MaxCloses
    /\ LET m == close([isClosed       |-> isClosed,
                       mailboxTimer   |-> mailboxPollingInterval,
                       emergencyTimer |-> emergencyPollingInterval,
                       ops            |-> << >>,
                       dlOpen         |-> dlOpen,
                       buffer         |-> pdiBuffer,
                       view           |-> pdiView,
                       outcome        |-> "none"],
                      destroyThrows, releaseThrows)
       IN  /\ isClosed' = m.isClosed
           /\ mailboxPollingInterval' = m.mailboxTimer
           /\ emergencyPollingInterval' = m.emergencyTimer
           /\ dlOpen' = m.dlOpen
           /\ pdiBuffer' = m.buffer
           /\ pdiView' = m.view
           /\ closeOps' = closeOps \o m.ops
           /\ closeLast' = m.outcome
    /\ closeCalls' = closeCalls + 1
    /\ UNCHANGED << eniConfig, initDone, drvState, drvPdiSize, inputMappings,
                    outputMappings, missedCycleCount, cyclePc, lastCall, callParity >>
    /\ UNCHANGED << mailboxToggleBits, mbTasks, mbPolls, mbAllOnes, mbLast,
                    mbFailedAt, mbEvents >>
    /\ UNCHANGED << lastEmergencySlave, emEvents, emLast, emReads >>
    /\ UNCHANGED historyVars
    /\ UNCHANGED wireVars
    /\ UNCHANGED requestVars
    /\ UNCHANGED discoveryVars
    /\ UNCHANGED loopVars
    /\ IF isClosed
       THEN UNCHANGED timerVars
       ELSE LET tm == stopBoth(activeTimers, mbTimerId, emTimerId, timerCount)
            IN  /\ activeTimers' = tm.active
                /\ mbTimerId' = tm.mb
                /\ emTimerId' = tm.em
                /\ timerCount' = tm.count
    /\ UNCHANGED initVars

\* a direct call of startMailboxPolling()
StartMailboxPolling ==
    /\ timerCount < MaxTimers
    /\ LET tm == startPolling([field |-> mbTimerId, active |-> activeTimers,
                               count |-> timerCount], startMailboxPolling(eniConfig))
       IN  /\ activeTimers' = tm.active
           /\ mbTimerId' = tm.field
           /\ timerCount' = tm.count
           /\ mailboxPollingInterval' = (tm.field # NoTimer)
    /\ UNCHANGED << emTimerId, eniConfig, initDone, isClosed, drvState, drvPdiSize,
                    mailboxToggleBits, mbTasks, mbPolls, mbAllOnes, mbLast,
                    mbFailedAt, mbEvents >>
    /\ UNCHANGED << cycleVars, historyVars, emergencyVars, closeVars, wireVars,
                    requestVars, discoveryVars, initVars, loopVars >>

\* a direct call of startEmergencyPolling()
StartEmergencyPolling ==
    /\ timerCount < MaxTimers
    /\ LET tm == startPolling([field |-> emTimerId, active |-> activeTimers,
                               count |-> timerCount], startEmergencyPolling(eniConfig))
       IN  /\ activeTimers' = tm.active
           /\ emTimerId' = tm.field
           /\ timerCount' = tm.count
           /\ emergencyPollingInterval' = (tm.field # NoTimer)
    /\ UNCHANGED << mbTimerId, eniConfig, initDone, isClosed, drvState, drvPdiSize,
                    lastEmergencySlave, emEvents, emLast, emReads >>
    /\ UNCHANGED << cycleVars, historyVars, mailboxVars, closeVars, wireVars,
                    requestVars, discoveryVars, initVars, loopVars >>

\* a direct call of stopMailboxPolling()
StopMailboxPolling ==
    /\ LET tm == stopPolling([field |-> mbTimerId, active |-> activeTimers,
                              count |-> timerCount])
       IN  /\ activeTimers' = tm.active
           /\ mbTimerId' = tm.field
           /\ mailboxPollingInterval' = FALSE
    /\ UNCHANGED << emTimerId, timerCount, eniConfig, initDone, isClosed, drvState,
                    drvPdiSize, mailboxToggleBits, mbTasks, mbPolls, mbAllOnes,
                    mbLast, mbFailedAt, mbEvents >>
    /\ UNCHANGED << cycleVars, historyVars, emergencyVars, closeVars, wireVars,
                    requestVars, discoveryVars, initVars, loopVars >>

\* a direct call of stopEmergencyPolling()
StopEmergencyPolling ==
    /\ LET tm == stopPolling([field |-> emTimerId, active |-> activeTimers,
                              count |-> timerCount])
       IN  /\ activeTimers' = tm.active
           /\ emTimerId' = tm.field
           /\ emergencyPollingInterval' = FALSE
    /\ UNCHANGED << mbTimerId, timerCount, eniConfig, initDone, isClosed, drvState,
                    drvPdiSize, lastEmergencySlave, emEvents, emLast, emReads >>
    /\ UNCHANGED << cycleVars, historyVars, mailboxVars, closeVars, wireVars,
                    requestVars, discoveryVars, initVars, loopVars >>

-----------------------------------------------------------------------------
(* The driver's lock.  The driver serialises the calls that reach it: a call *)
(* uses the wire from the moment the driver has taken its lock for the call  *)
(* until the call completes.                                                 *)

CycleOp == [op |-> "cycle", task |-> 0]

EmergencyOp == [op |-> "emergency", task |-> 0]

\* the check of the suspended mailbox callback t
MailboxOp(t) == [op |-> "mailbox", task |-> t]

\* the call has been made and has not completed
pending(o) ==
    CASE o.op = "cycle"     -> cyclePc = "awaiting"
      [] o.op = "mailbox"   -> o.task \in 1..Len(mbTasks)
      [] o.op = "emergency" -> emergencyPollingInterval /\ ~isClosed
                                   /\ emReads < MaxEmReads

\* a driver without the lock
lockFree_Always(wire) == TRUE

\* the lock can be taken when no call holds it
lockFree(wire) == wire = {}

\* the driver takes the lock for the pending call o
DriverAcquire(o) ==
    /\ pending(o)
    /\ o \notin onWire
    /\ lockFree(onWire)
    /\ onWire' = onWire \cup {o}
    /\ UNCHANGED << eniConfig, initDone, isClosed, drvState, drvPdiSize >>
    /\ UNCHANGED << cycleVars, historyVars, mailboxVars, emergencyVars, closeVars >>
    /\ UNCHANGED requestVars
    /\ UNCHANGED discoveryVars
    /\ UNCHANGED loopVars
    /\ UNCHANGED timerVars
    /\ UNCHANGED initVars

\* the wire after the call o has completed (the suspended mailbox callbacks
\* behind a completed one move up)
released(wire, o) ==
    { IF p.op = "mailbox" /\ o.op = "mailbox" /\ p.task > o.task
      THEN MailboxOp(p.task - 1) ELSE p : p \in wire \ {o} }

\* the call o completes in this step
DriverRelease(o) ==
    /\ o \in onWire
    /\ onWire' = released(onWire, o)

\* the JavaScript thread is not inside the synchronous emergency read
JsIdle == EmergencyOp \notin onWire

-----------------------------------------------------------------------------
(* requestState *)

\* RegisterAddress.SM_WATCHDOG, 0x0420
SM_WATCHDOG == 1056

\* ethercrab_register_write_u16 takes its value as "u16"
U16 == 65536

\* the value that a u16 parameter of the driver receives for the number v
ToU16(v) == v % U16

\* the description with its master section
WithMaster(cfg, watchdogTimeoutMs) ==
    [slaves       |-> cfg.slaves,
     processImage |-> cfg.processImage,
     master       |-> [watchdogTimeoutMs |-> watchdogTimeoutMs]]

\* no requestState call is in progress
NoRequest == [target |-> INIT, previousState |-> INIT, slave |-> 0, timeoutValue |-> 0]

\* a call of the driver: the symbol and its arguments
DriverCall(symbol, slave, address, value) ==
    [symbol |-> symbol, slave |-> slave, address |-> address, value |-> value]

\* registerWrite(slaveIndex, RegisterAddress.SM_WATCHDOG, timeoutValue)
WatchdogWrite(slave, timeoutValue) ==
    DriverCall("ethercrab_register_write_u16", slave, SM_WATCHDOG, timeoutValue)

RequestCall(targetState) ==
    DriverCall("ethercrab_request_state", NoVal, NoVal, targetState)

\* requestState up to its first await
RequestStateBegin(targetState) ==
    /\ rsPc = "idle"
    /\ initDone
    /\ rsCalls < MaxRequests
    /\ LET previousState == drvState
           timeoutMs     == eniConfig.master.watchdogTimeoutMs
           configure     == /\ targetState = SAFE_OP
                            /\ previousState = PRE_OP
                            /\ timeoutMs # NoVal
           timeoutValue  == IF configure THEN timeoutMs * 10 ELSE 0
       IN  /\ rsCall' = [target |-> targetState, previousState |-> previousState,
                         slave |-> 0, timeoutValue |-> timeoutValue]
           /\ IF configure /\ Len(eniConfig.slaves) > 0
              THEN /\ rsPc' = "watchdog"
                   /\ rsLog' = << WatchdogWrite(0, timeoutValue) >>
              ELSE /\ rsPc' = "request"
                   /\ rsLog' = << RequestCall(targetState) >>
           /\ rsLast' = [rsLast EXCEPT !.before = previousState]
    /\ rsFailed' = {}
    /\ UNCHANGED << smWatchdog, rsCalls, stateEvents >>
    /\ UNCHANGED << eniConfig, initDone, isClosed, drvState, drvPdiSize >>
    /\ UNCHANGED << cycleVars, historyVars, mailboxVars, emergencyVars, closeVars,
                    wireVars >>
    /\ UNCHANGED discoveryVars
    /\ UNCHANGED loopVars
    /\ UNCHANGED timerVars
    /\ UNCHANGED initVars

\* the loop of configureAllWatchdogTimeouts: a failed write ends the call
afterWatchdogWrite_Throw(failed) == IF failed THEN "throw" ELSE "continue"

\* the loop of configureWatchdogFromConfig: a failed write is caught and
\* warned about
afterWatchdogWrite(failed) == "continue"

\* the register write of the slave rsCall.slave completes: with result, or
\* (rejected) by raising
WatchdogWriteEnd(result, rejected) ==
    /\ rsPc = "watchdog"
    /\ LET i      == rsCall.slave
           failed == rejected \/ result < 0
       IN  /\ smWatchdog' = IF failed THEN smWatchdog
                            ELSE [smWatchdog EXCEPT ![i] = ToU16(rsCall.timeoutValue)]
           /\ rsFailed' = IF failed THEN rsFailed \cup {i} ELSE rsFailed
           /\ IF afterWatchdogWrite(failed) = "throw"
              THEN /\ rsPc' = "idle"
                   /\ rsCall' = NoRequest
                   /\ rsLast' = [rsLast EXCEPT !.outcome = "FfiError", !.result = result]
                   /\ rsCalls' = rsCalls + 1
                   /\ UNCHANGED rsLog
              ELSE /\ IF i + 1 < Len(eniConfig.slaves)
                      THEN /\ rsPc' = "watchdog"
                           /\ rsCall' = [rsCall EXCEPT !.slave = i + 1]
                           /\ rsLog' = Append(rsLog,
                                              WatchdogWrite(i + 1, rsCall.timeoutValue))
                      ELSE /\ rsPc' = "request"
                           /\ rsCall' = rsCall
                           /\ rsLog' = Append(rsLog, RequestCall(rsCall.target))
                   /\ UNCHANGED << rsLast, rsCalls >>
    /\ UNCHANGED stateEvents
    /\ UNCHANGED << eniConfig, initDone, isClosed, drvState, drvPdiSize >>
    /\ UNCHANGED << cycleVars, historyVars, mailboxVars, emergencyVars, closeVars,
                    wireVars >>
    /\ UNCHANGED discoveryVars
    /\ UNCHANGED loopVars
    /\ UNCHANGED timerVars
    /\ UNCHANGED initVars

StateChange(previousState, currentState) ==
    [previousState |-> previousState, currentState |-> currentState]

\* the event is emitted before the result is looked at
requestResult_EmitFirst(result, previousState, currentState, events) ==
    [events  |-> Append(events, StateChange(previousState, currentState)),
     outcome |-> IF result < 0 THEN "StateTransitionError" ELSE "returned"]

\* requestState after ethercrab_request_state has returned result: the events
\* emitted afterwards and how the call ends
requestResult(result, previousState, currentState, events) ==
    IF result < 0
    THEN [events |-> events, outcome |-> "StateTransitionError"]
    ELSE [events  |-> Append(events, StateChange(previousState, currentState)),
          outcome |-> "returned"]

\* ethercrab_request_state completes with result; st and size are what the
\* driver reports afterwards as its state and as the size of the image
RequestStateEnd(result, st, size) ==
    /\ rsPc = "request"
    /\ LET done == requestResult(result, rsCall.previousState, st, stateEvents)
           sz   == DriverPdiSize(size, st)
           pdi  == IF st \in {SAFE_OP, OP} THEN updatePdiBuffer(pdiBuffer, sz)
                   ELSE [buffer |-> pdiBuffer, view |-> pdiView]
       IN  /\ stateEvents' = done.events
           /\ rsLast' = [rsLast EXCEPT !.outcome = done.outcome, !.result = result]
           /\ IF result < 0
              THEN UNCHANGED << drvState, drvPdiSize, pdiBuffer, pdiView >>
              ELSE /\ drvState' = st
                   /\ drvPdiSize' = sz
                   /\ pdiBuffer' = pdi.buffer
                   /\ pdiView' = pdi.view
    /\ rsPc' = "idle"
    /\ rsCall' = NoRequest
    /\ rsCalls' = rsCalls + 1
    /\ UNCHANGED << smWatchdog, rsLog, rsFailed >>
    /\ UNCHANGED << eniConfig, initDone, isClosed, inputMappings, outputMappings,
                    missedCycleCount, cyclePc, lastCall, callParity >>
    /\ UNCHANGED << historyVars, mailboxVars, emergencyVars, closeVars, wireVars >>
    /\ UNCHANGED discoveryVars
    /\ UNCHANGED loopVars
    /\ UNCHANGED timerVars
    /\ UNCHANGED initVars

-----------------------------------------------------------------------------
(* discoverNetwork *)

MAX_SCAN_RETRIES == 5
BASE_RETRY_DELAY_MS == 50
MAX_RETRY_DELAY_MS == 500

\* a description without slaves
NoDescription ==
    [slaves |-> << >>,
     processImage |-> [present |-> TRUE,
                       outputs |-> [byteSize |-> 0, variables |-> << >>],
                       inputs  |-> [byteSize |-> 0, variables |-> << >>]]]

\* the cursor is left where the slave's last entry ended
alignBits_None(bits) == bits

\* "Byte align slave"
alignBits(bits) ==
    IF bits > 0 /\ bits % 8 # 0 THEN bits + (8 - (bits % 8)) ELSE bits

\* the loop over the PDO entries of the slave called name from entry e on; a
\* variable is called `${name}.${entryName}`.  sm 2 is an
\* output (RxPDO), sm 3 an input (TxPDO); an entry of another sync manager is
\* listed among the slave's entries and moves no cursor.  st holds the slave's
\* slaveInputBits and slaveOutputBits, its entries, and the variables.
RECURSIVE layoutEntries(_, _, _, _, _, _)
layoutEntries(entries, e, name, currentInputBitOffset, currentOutputBitOffset, st) ==
    IF e > Len(entries) THEN st
    ELSE LET entry    == entries[e]
             isOutput == entry.sm = 2
             isInput  == entry.sm = 3
             variableName  == << name, entry.name >>
             pdoByteOffset == IF isInput THEN st.slaveInputBits \div 8
                              ELSE st.slaveOutputBits \div 8
             pdiByteOffset ==
                 IF isInput
                 THEN (currentInputBitOffset + st.slaveInputBits) \div 8
                 ELSE (currentOutputBitOffset + st.slaveOutputBits) \div 8
             listed == Append(st.processDataEntries,
                              [name |-> entry.name,
                               sm |-> entry.sm, bitLen |-> entry.bitLen,
                               dataType |-> entry.dataType,
                               pdoOffset |-> pdoByteOffset,
                               pdiOffset |-> pdiByteOffset])
         IN  layoutEntries(entries, e + 1, name, currentInputBitOffset,
                 currentOutputBitOffset,
                 IF isInput
                 THEN [st EXCEPT
                          !.processDataEntries = listed,
                          !.inputVariables =
                              Append(@, Variable(variableName, entry.dataType, entry.bitLen,
                                         currentInputBitOffset + st.slaveInputBits)),
                          !.slaveInputBits = @ + entry.bitLen]
                 ELSE IF isOutput
                 THEN [st EXCEPT
                          !.processDataEntries = listed,
                          !.outputVariables =
                              Append(@, Variable(variableName, entry.dataType, entry.bitLen,
                                         currentOutputBitOffset + st.slaveOutputBits)),
                          !.slaveOutputBits = @ + entry.bitLen]
                 ELSE [st EXCEPT !.processDataEntries = listed])

\* the loop over the scanned slaves from slave i (1-based) on; d holds the
\* slaves built, the two cursors and the variables
RECURSIVE layoutSlaves(_, _, _)
layoutSlaves(scan, i, d) ==
    IF i > Len(scan) THEN d
    ELSE LET st == layoutEntries(scan[i].entries, 1, scan[i].name,
                       d.currentInputBitOffset, d.currentOutputBitOffset,
                       [slaveInputBits |-> 0, slaveOutputBits |-> 0,
                        processDataEntries |-> << >>,
                        inputVariables |-> d.inputVariables,
                        outputVariables |-> d.outputVariables])
             slaveInputBits  == alignBits(st.slaveInputBits)
             slaveOutputBits == alignBits(st.slaveOutputBits)
             processData ==
                 IF Len(st.processDataEntries) > 0
                 THEN ProcessData(d.currentOutputBitOffset \div 8, slaveOutputBits,
                                  d.currentInputBitOffset \div 8, slaveInputBits)
                 ELSE NoProcessData
             slaveConfig ==
                 [s \in {"name", "entries"} |->
                     IF s = "name" THEN scan[i].name ELSE st.processDataEntries]
                     @@ Slave(processData, scan[i].coe, scan[i].coe)
         IN  layoutSlaves(scan, i + 1,
                 [slaves |-> Append(d.slaves, slaveConfig),
                  currentInputBitOffset  |-> d.currentInputBitOffset + slaveInputBits,
                  currentOutputBitOffset |-> d.currentOutputBitOffset + slaveOutputBits,
                  inputVariables  |-> st.inputVariables,
                  outputVariables |-> st.outputVariables])

\* the description discoverNetwork returns for the scan (the slaves and the
\* entries the driver could read, in bus order)
discoverLayout(scan) ==
    LET d == layoutSlaves(scan, 1,
                 [slaves |-> << >>, currentInputBitOffset |-> 0,
                  currentOutputBitOffset |-> 0, inputVariables |-> << >>,
                  outputVariables |-> << >>])
    IN  [slaves |-> d.slaves,
         processImage |->
            [present |-> TRUE,
             inputs  |-> [byteSize  |-> (d.currentInputBitOffset + 7) \div 8,
                          variables |-> d.inputVariables],
             outputs |-> [byteSize  |-> (d.currentOutputBitOffset + 7) \div 8,
                          variables |-> d.outputVariables]]]

\* Math.min(BASE_RETRY_DELAY_MS * Math.pow(2, attempt), MAX_RETRY_DELAY_MS)
rawDelay(attempt) ==
    IF BASE_RETRY_DELAY_MS * Pow2(attempt) < MAX_RETRY_DELAY_MS
    THEN BASE_RETRY_DELAY_MS * Pow2(attempt) ELSE MAX_RETRY_DELAY_MS

\* Math.max(10, Math.floor(rawDelay + rawDelay * 0.4 * (Math.random() - 0.5))),
\* with Math.random() given in hundredths
finalDelay(raw, random) ==
    LET d == (raw * (1000 + 4 * (random - 50))) \div 1000
    IN  IF d < 10 THEN 10 ELSE d

DriverOp(op) == [op |-> op, attempt |-> 0, raw |-> 0, delay |-> 0]

\* the last value of attempt in the retry loop (attempt <= MAX_SCAN_RETRIES)
lastAttempt == MAX_SCAN_RETRIES

\* discoverNetwork up to its first await: the library is opened, the driver's
\* state is destroyed and the first scan is started
DiscoverBegin ==
    /\ dscPc = "idle"
    /\ dscPc' = "scanning"
    /\ dscAttempt' = 0
    /\ dscLog' = << DriverOp("ethercrab_destroy"), DriverOp("ethercrab_scan_new") >>
    /\ dscLast' = "none"
    /\ discovered' = NoDescription
    /\ UNCHANGED << eniConfig, initDone, isClosed, drvState, drvPdiSize >>
    /\ UNCHANGED << cycleVars, historyVars, mailboxVars, emergencyVars, closeVars,
                    wireVars, requestVars >>
    /\ UNCHANGED loopVars
    /\ UNCHANGED timerVars
    /\ UNCHANGED initVars

\* ethercrab_scan_new returns.  result: "found" (a scan context), "busy" (a
\* null pointer, the last error not about permissions), "permission" (a null
\* pointer, the last error "Permission denied" or "Operation not permitted")
ScanReturns(result, scan) ==
    /\ dscPc = "scanning"
    /\ CASE result = "found" ->
               /\ discovered' = discoverLayout(scan)
               /\ dscPc' = "idle"
               /\ dscLast' = "found"
               /\ dscLog' = Append(dscLog, DriverOp("ethercrab_scan_free"))
         [] result = "permission" ->
               /\ dscPc' = "idle"
               /\ dscLast' = "permission"
               /\ UNCHANGED << dscLog, discovered >>
         [] OTHER ->
               IF dscAttempt < lastAttempt
               THEN /\ dscPc' = "waiting"
                    /\ UNCHANGED << dscLog, dscLast, discovered >>
               ELSE /\ dscPc' = "idle"
                    /\ dscLast' = "busy"
                    /\ UNCHANGED << dscLog, discovered >>
    /\ UNCHANGED dscAttempt
    /\ UNCHANGED << eniConfig, initDone, isClosed, drvState, drvPdiSize >>
    /\ UNCHANGED << cycleVars, historyVars, mailboxVars, emergencyVars, closeVars,
                    wireVars, requestVars >>
    /\ UNCHANGED loopVars
    /\ UNCHANGED timerVars
    /\ UNCHANGED initVars

\* the wait before a retry, and the next scan
ScanRetry(random) ==
    /\ dscPc = "waiting"
    /\ dscPc' = "scanning"
    /\ dscAttempt' = dscAttempt + 1
    /\ dscLog' = dscLog \o
           << [op |-> "wait", attempt |-> dscAttempt, raw |-> rawDelay(dscAttempt),
               delay |-> finalDelay(rawDelay(dscAttempt), random)],
              DriverOp("ethercrab_scan_new") >>
    /\ UNCHANGED << dscLast, discovered >>
    /\ UNCHANGED << eniConfig, initDone, isClosed, drvState, drvPdiSize >>
    /\ UNCHANGED << cycleVars, historyVars, mailboxVars, emergencyVars, closeVars,
                    wireVars, requestVars >>
    /\ UNCHANGED loopVars
    /\ UNCHANGED timerVars
    /\ UNCHANGED initVars

-----------------------------------------------------------------------------
(* initialize *)

\* slave.initCommands of a slave that may have none
initCommandsOf(slave) ==
    IF "initCommands" \in DOMAIN slave THEN slave.initCommands ELSE << >>

\* allInitCmds: the commands of type "sdo" or "register" of all slaves, in
\* slave order and, within a slave, in the order of its initCommands
RECURSIVE allInitCmdsFrom(_, _, _)
allInitCmdsFrom(cfg, slaveIndex, pos) ==
    IF slaveIndex >= Len(cfg.slaves) THEN << >>
    ELSE LET cmds == initCommandsOf(cfg.slaves[slaveIndex + 1])
         IN  IF pos > Len(cmds) THEN allInitCmdsFrom(cfg, slaveIndex + 1, 1)
             ELSE (IF cmds[pos].type \in {"sdo", "register"}
                   THEN << [cmd |-> cmds[pos], slaveIndex |-> slaveIndex, pos |-> pos] >>
                   ELSE << >>)
                  \o allInitCmdsFrom(cfg, slaveIndex, pos + 1)

allInitCmds(cfg) == allInitCmdsFrom(cfg, 0, 1)

\* the value field of an FfiInitCommand, filled by setUint32(0, Number(val)):
\* the four low bytes of the value (ToUint32), least significant first
valBytes(value) == SubSeq(value, 1, 4)

\* one FfiInitCommand: slave_index, command_type (0 = SDO, 1 = register),
\* index (the index of an SDO, the ado of a register), sub_index, value.
\* The transition of the command has no field.
FfiInitCommand(item) ==
    [slave_index  |-> item.slaveIndex,
     command_type |-> IF item.cmd.type = "register" THEN 1 ELSE 0,
     index        |-> item.cmd.index,
     sub_index    |-> item.cmd.subIndex,
     value        |-> valBytes(item.cmd.value)]

\* initCmdsBuffer as handed to ethercrab_init
initCmdsBuffer(cfg) ==
    [k \in 1..Len(allInitCmds(cfg)) |-> FfiInitCommand(allInitCmds(cfg)[k])]

\* the transition steps ethercrab_init performs to bring the bus to state st
InitSteps(st) ==
    {"IP"} \cup (IF st \in {SAFE_OP, OP} THEN {"PS"} ELSE {})
           \cup (IF st = OP THEN {"SO"} ELSE {})

\* the driver executes the commands of the buffer in the order of the buffer.
\* It is told nothing of the transitions of a command, so the step at which
\* it does so is the same for all of them.
driverExecutes(buffer, step) ==
    [k \in 1..Len(buffer) |-> [step |-> step, k |-> k, command |-> buffer[k]]]

\* initialize(): result is what ethercrab_init returns, st the state the
\* driver reports afterwards
Initialize(result, st, size) ==
    /\ ~initDone
    /\ drvInitCmds' = initCmdsBuffer(eniConfig)
    /\ \E step \in InitSteps(st) : initCmdLog' = driverExecutes(drvInitCmds', step)
    /\ IF result < 0
       THEN UNCHANGED nonInitVars
       ELSE LET sz  == DriverPdiSize(size, st)
                pdi == updatePdiBuffer(pdiBuffer, sz)
                processDataMappings == buildProcessDataMappings(eniConfig)
            IN  /\ drvState' = st
                /\ drvPdiSize' = sz
                /\ pdiBuffer' = pdi.buffer
                /\ pdiView' = pdi.view
                /\ inputMappings' = optimizedInputs(processDataMappings)
                /\ outputMappings' = optimizedOutputs(processDataMappings)
                /\ mailboxPollingInterval' = startMailboxPolling(eniConfig)
                /\ emergencyPollingInterval' = startEmergencyPolling(eniConfig)
                /\ initDone' = TRUE
                /\ UNCHANGED << eniConfig, isClosed, missedCycleCount, cyclePc,
                                lastCall, callParity, mailboxToggleBits, mbTasks,
                                mbPolls, mbAllOnes, mbLast, mbFailedAt, mbEvents,
                                lastEmergencySlave, emEvents, emLast, emReads >>
                /\ UNCHANGED closeVars
                /\ UNCHANGED wireVars
                /\ UNCHANGED requestVars
                /\ UNCHANGED discoveryVars
                /\ UNCHANGED loopVars
                /\ LET tm == startBoth(eniConfig, activeTimers, mbTimerId, emTimerId,
                                       timerCount)
                   IN  /\ activeTimers' = tm.active
                       /\ mbTimerId' = tm.mb
                       /\ emTimerId' = tm.em
                       /\ timerCount' = tm.count
                /\ UNCHANGED historyVars

-----------------------------------------------------------------------------
(* Specifications *)

-----------------------------------------------------------------------------
(* createCycleLoop: the controller of a cycle loop.  A call of runCycleLoop   *)
(* is suspended at the await of cycleFn() or at the await of                 *)
(* waitUntilNextCycle().                                                     *)

MaxLoops == 3

MaxCycles == 4

\* the entry of runCycleLoop(), and the test of its while after a wait: with
\* the flag set the call goes on to cycleFn() and waits for it, else it ends
whileRunning(flag, calls, l) ==
    IF flag THEN [calls EXCEPT ![l] = "cycleFn"] ELSE RemoveAt(calls, l)

\* start(): a warning when the flag is set, else the flag is set and
\* runCycleLoop() is called, which runs up to its await of cycleFn()
LoopStart ==
    /\ Len(loops) < MaxLoops
    /\ IF running
       THEN UNCHANGED << running, loops >>
       ELSE /\ running' = TRUE
            /\ loops' = Append(loops, "cycleFn")
    /\ UNCHANGED << cycleCount, lastWkc >>
    /\ UNCHANGED masterVars

\* stop()
LoopStop ==
    /\ running' = FALSE
    /\ UNCHANGED << loops, cycleCount, lastWkc >>
    /\ UNCHANGED masterVars

\* cycleFn() of the call l settles: with the number result, or by raising.
\* The catch clears the flag, and the while ends the call.
CycleFnSettles(l, result, throws) ==
    /\ l \in 1..Len(loops)
    /\ loops[l] = "cycleFn"
    /\ IF throws
       THEN /\ running' = FALSE
            /\ loops' = RemoveAt(loops, l)
            /\ UNCHANGED << cycleCount, lastWkc >>
       ELSE /\ cycleCount < MaxCycles
            /\ cycleCount' = cycleCount + 1
            /\ lastWkc' = result
            /\ loops' = [loops EXCEPT ![l] = "wait"]
            /\ UNCHANGED running
    /\ UNCHANGED masterVars

\* waitUntilNextCycle() of the call l returns
WaitEnds(l) ==
    /\ l \in 1..Len(loops)
    /\ loops[l] = "wait"
    /\ loops' = whileRunning(running, loops, l)
    /\ UNCHANGED << running, cycleCount, lastWkc >>
    /\ UNCHANGED masterVars

\* the master after construction on the description cfg
InitWith(cfg) ==
    /\ eniConfig = cfg
    /\ initDone = FALSE
    /\ isClosed = FALSE
    /\ pdiBuffer = NullBuffer
    /\ pdiView = FALSE
    /\ inputMappings = << >>
    /\ outputMappings = << >>
    /\ missedCycleCount = 0
    /\ drvState = INIT
    /\ drvPdiSize = 0
    /\ cyclePc = "idle"
    /\ lastCall = NoCall
    /\ callParity = 0
    /\ run = << >>
    /\ runFromZero = TRUE
    /\ prevMissed = 0
    /\ mailboxPollingInterval = FALSE
    /\ mailboxToggleBits = [i \in SlaveIndexes(cfg) |-> NoToggle]
    /\ mbTasks = << >>
    /\ mbPolls = [i \in SlaveIndexes(cfg) |-> << >>]
    /\ mbAllOnes = [i \in SlaveIndexes(cfg) |-> TRUE]
    /\ mbLast = [index |-> 0, pos |-> 0, result |-> 0, rejected |-> FALSE, flip |-> 0]
    /\ mbFailedAt = [i \in SlaveIndexes(cfg) |-> NoVal]
    /\ mbEvents = << >>
    /\ emergencyPollingInterval = FALSE
    /\ lastEmergencySlave = [i \in EmergencySlaveIds(cfg) |-> NoEmergency]
    /\ emEvents = << >>
    /\ emLast = [read |-> NoEmergency, flip |-> 0]
    /\ emReads = 0
    /\ dlOpen = TRUE
    /\ closeCalls = 0
    /\ closeLast = "none"
    /\ closeOps = << >>
    /\ onWire = {}
    /\ rsPc = "idle"
    /\ rsCall = NoRequest
    /\ smWatchdog = [i \in SlaveIndexes(cfg) |-> NoVal]
    /\ rsLog = << >>
    /\ rsFailed = {}
    /\ rsLast = [outcome |-> "none", result |-> 0, before |-> INIT]
    /\ rsCalls = 0
    /\ stateEvents = << >>
    /\ dscPc = "idle"
    /\ dscAttempt = 0
    /\ dscLog = << >>
    /\ dscLast = "none"
    /\ discovered = NoDescription
    /\ activeTimers = {}
    /\ mbTimerId = NoTimer
    /\ emTimerId = NoTimer
    /\ timerCount = 0
    /\ running = FALSE
    /\ loops = << >>
    /\ cycleCount = 0
    /\ lastWkc = NoVal
    /\ drvInitCmds = << >>
    /\ initCmdLog = << >>

\* driver results of ethercrab_cyclic_tx_rx
WkcResults == {-5, -4, -3, -2, -1, 0, 1}

\* driver results of ethercrab_init
InitResults == {-1, 0}

\* driver results of ethercrab_check_mailbox_resilient
MailboxResults == {-2, -1, 0, 1}

\* input images the slaves send
InputFrames ==
    { << 255, 255, 255, 255, 255, 255, 255, 255 >>,
      << 52, 18, 128, 255, 0, 0, 128, 63 >>,
      << 255, 255, 255, 255, 255, 255, 31, 0 >> }

\* values the user stores in an output mapping of the type
OutputValues(dataType) ==
    IF dataType = "BOOL" THEN {Bool(TRUE), Bool(FALSE)}
    ELSE {Num(FALSE, << 255, 1 >>)}

Init == InitWith(MOCK_ENI)

InitPdi == InitWith(PDI_ENI)

\* the cyclic exchange with the ride-through policy, no process image
Next ==
    \/ \E result \in InitResults, st \in {INIT, OP}, size \in DriverImageSizes(eniConfig) :
           Initialize(result, st, size)
    \/ RunCycleBegin
    \/ \E wkc \in WkcResults :
           RunCycleEnd(wkc, << >>) /\ ObserveCall(wkc) /\ UNCHANGED wireVars

Spec == Init /\ [][Next]_vars

\* the cyclic exchange on a process image
NextPdi ==
    \/ \E result \in InitResults, st \in {PRE_OP, OP},
          size \in DriverImageSizes(eniConfig) : Initialize(result, st, size)
    \/ \E k \in 1..Len(outputMappings) :
           \E v \in OutputValues(outputMappings[k].dataType) : SetNewValue(k, v)
    \/ RunCycleBegin
    \/ \E wkc \in {-4, 1}, frame \in InputFrames \cup {<< >>} :
           RunCycleEnd(wkc, frame) /\ UNCHANGED << historyVars, wireVars >>
    \/ \E wkc \in {-2, -1} :
           RunCycleEnd(wkc, << >>) /\ UNCHANGED << historyVars, wireVars >>

SpecPdi == InitPdi /\ [][NextPdi]_vars

\* the mailbox polling loop
NextMailbox ==
    \/ \E result \in InitResults, size \in DriverImageSizes(eniConfig) :
           Initialize(result, PRE_OP, size)
    \/ MailboxTick
    \/ \E t \in 1..MaxMbTasks, result \in MailboxResults, rejected \in BOOLEAN :
           MailboxResume(t, result, rejected) /\ UNCHANGED wireVars

SpecMailbox == Init /\ [][NextMailbox]_vars

\* what ethercrab_get_last_emergency delivers: nothing, or the last emergency
\* of a slave id
EmergencyReads ==
    {NoEmergency} \cup
    { Emergency(id, code, reg) : id \in EmergencySlaveIds(MOCK_ENI),
                                 code \in {4660, 22136}, reg \in {86, 87} }

\* the emergency polling loop
NextEmergency ==
    \/ \E result \in InitResults, size \in DriverImageSizes(eniConfig) :
           Initialize(result, PRE_OP, size)
    \/ \E read \in EmergencyReads : EmergencyTick(read) /\ UNCHANGED wireVars

SpecEmergency == Init /\ [][NextEmergency]_vars

\* close() beside the two polling loops; initialize() can complete after
\* close() when close() is called while initialize() awaits the driver
NextClose ==
    \/ \E result \in InitResults, size \in DriverImageSizes(eniConfig) :
           Initialize(result, OP, size)
    \/ MailboxTick
    \/ \E t \in 1..MaxMbTasks, result \in {0, 1} :
           MailboxResume(t, result, FALSE) /\ UNCHANGED wireVars
    \/ \E read \in {NoEmergency, Emergency(0, 4660, 86)} :
           EmergencyTick(read) /\ UNCHANGED wireVars
    \/ \E destroyThrows \in BOOLEAN, releaseThrows \in BOOLEAN :
           Close(destroyThrows, releaseThrows)

SpecClose == Init /\ [][NextClose]_vars

\* the cyclic exchange beside the two polling loops, on the driver's lock
NextWire ==
    \/ \E size \in DriverImageSizes(eniConfig) : Initialize(0, OP, size) /\ JsIdle
    \/ RunCycleBegin /\ JsIdle
    \/ MailboxTick /\ JsIdle
    \/ \E o \in {CycleOp, EmergencyOp} \cup { MailboxOp(t) : t \in 1..MaxMbTasks } :
           DriverAcquire(o)
    \/ RunCycleEnd(1, << >>) /\ DriverRelease(CycleOp) /\ UNCHANGED historyVars
    \/ \E t \in 1..MaxMbTasks :
           MailboxResume(t, 1, FALSE) /\ DriverRelease(MailboxOp(t))
    \/ \E read \in {NoEmergency, Emergency(0, 4660, 86)} :
           EmergencyTick(read) /\ DriverRelease(EmergencyOp)

SpecWire == Init /\ [][NextWire]_vars

\* master.watchdogTimeoutMs of the descriptions: not set, 200 ms, 7 s
WatchdogTimeouts == {NoVal, 200, 7000}

InitState == \E ms \in WatchdogTimeouts : InitWith(WithMaster(MOCK_ENI, ms))

\* the state requests
NextState ==
    \/ \E result \in InitResults, st \in {PRE_OP, OP},
          size \in DriverImageSizes(eniConfig) : Initialize(result, st, size)
    \/ \E targetState \in SlaveState : RequestStateBegin(targetState)
    \/ \E result \in {-1, 0}, rejected \in BOOLEAN : WatchdogWriteEnd(result, rejected)
    \/ \E result \in {-1, 0}, st \in {rsCall.target, rsCall.previousState},
          size \in DriverImageSizes(eniConfig) : RequestStateEnd(result, st, size)

SpecState == InitState /\ [][NextState]_vars

\* what Math.random() returns, in hundredths
Randoms == {0, 99}

ScanEntry(name, sm, dataType, bitLen) ==
    [name |-> name, sm |-> sm, dataType |-> dataType, bitLen |-> bitLen]

\* slaves a scan finds: without PDOs, with three input bits, with a 16-bit
\* output and an input byte, with an output bit, an output byte and 12 input
\* bits, with an entry of a sync manager that carries no process data, and
\* with one input entry of no bits
ScannedSlaves ==
    { [name |-> "EK1100", coe |-> FALSE, entries |-> << >>],
      [name |-> "EL1003", coe |-> FALSE,
       entries |-> << ScanEntry("In1", 3, "BOOL", 1), ScanEntry("In2", 3, "BOOL", 1),
                      ScanEntry("In3", 3, "BOOL", 1) >>],
      [name |-> "EP1003", coe |-> TRUE,
       entries |-> << ScanEntry("In1", 3, "BOOL", 1), ScanEntry("In2", 3, "BOOL", 1),
                      ScanEntry("In3", 3, "BOOL", 1) >>],
      [name |-> "EL4001", coe |-> TRUE,
       entries |-> << ScanEntry("Out", 2, "UINT16", 16),
                      ScanEntry("State", 3, "UINT8", 8) >>],
      [name |-> "EL2521", coe |-> TRUE,
       entries |-> << ScanEntry("Go", 2, "BOOL", 1), ScanEntry("Ctrl", 2, "UINT8", 8),
                      ScanEntry("Count", 3, "UINT16", 12) >>],
      [name |-> "EL6001", coe |-> FALSE,
       entries |-> << ScanEntry("Mbx", 0, "UINT8", 8) >>],
      [name |-> "EL9000", coe |-> FALSE,
       entries |-> << ScanEntry("Gap", 3, "UINT8", 0) >>] }

\* the longest bus scanned
MaxScanned == 3

Scans == UNION { [1..n -> ScannedSlaves] : n \in 0..MaxScanned }

ScanResults == {"found", "busy", "permission"}

\* discovery
NextScan ==
    \/ DiscoverBegin
    \/ \E result \in ScanResults :
           \E scan \in (IF result = "found" THEN Scans ELSE {<< >>}) :
               ScanReturns(result, scan)
    \/ \E random \in Randoms : ScanRetry(random)

SpecScan == Init /\ [][NextScan]_vars

\* a master and a discovery in one process
NextIsolation ==
    \/ \E result \in InitResults, size \in DriverImageSizes(eniConfig) :
           Initialize(result, OP, size)
    \/ RunCycleBegin
    \/ \E wkc \in {-1, 1} :
           RunCycleEnd(wkc, << >>) /\ UNCHANGED << historyVars, wireVars >>
    \/ Close(FALSE, FALSE)
    \/ DiscoverBegin
    \/ \E result \in ScanResults : ScanReturns(result, << >>)
    \/ ScanRetry(50)

SpecIsolation == Init /\ [][NextIsolation]_vars

InitMixed == InitWith(MIXED_ENI)

\* the mailbox polling loop on slaves whose mailbox configuration and CoE
\* support differ
NextMixed ==
    \/ \E result \in InitResults, size \in DriverImageSizes(eniConfig) :
           Initialize(result, PRE_OP, size)
    \/ MailboxTick
    \/ \E t \in 1..MaxMbTasks, result \in MailboxResults :
           MailboxResume(t, result, FALSE) /\ UNCHANGED wireVars

SpecMixed == InitMixed /\ [][NextMixed]_vars

\* init-command values, as eight base-256 digits: 1, 0x12345678, 2^32 + 1
InitValues ==
    { << 1, 0, 0, 0, 0, 0, 0, 0 >>, << 120, 86, 52, 18, 0, 0, 0, 0 >>,
      << 1, 0, 0, 0, 1, 0, 0, 0 >> }

InitTransitions == { {"IP"}, {"PS"}, {"SO"}, {"IP", "PS"} }

InitCommand(type, transition, index, subIndex, value) ==
    [type |-> type, transition |-> transition, index |-> index,
     subIndex |-> subIndex, value |-> value]

\* descriptions whose first slave has an SDO download, an SoE write and a
\* second SDO download, and whose second slave has a register write
InitCmdConfigs ==
    { [slaves |->
          << [s \in {"initCommands"} |->
                 << InitCommand("sdo", t1, 32768, 1, v),
                    InitCommand("soe", {"PS"}, 0, 0, v),
                    InitCommand("sdo", t2, 32769, 0, v) >>]
                 @@ Slave(NoProcessData, TRUE, TRUE),
             [s \in {"initCommands"} |->
                 << InitCommand("register", {"IP"}, 288, 0, v) >>]
                 @@ Slave(NoProcessData, FALSE, FALSE) >>,
       processImage |-> MOCK_ENI.processImage] :
          t1 \in InitTransitions, t2 \in InitTransitions, v \in InitValues }

InitInitCmds == \E cfg \in InitCmdConfigs : InitWith(cfg)

\* initialize() on descriptions with init commands
NextInitCmds ==
    \E result \in InitResults, st \in {PRE_OP, OP},
       size \in DriverImageSizes(eniConfig) : Initialize(result, st, size)

SpecInitCmds == InitInitCmds /\ [][NextInitCmds]_vars

\* a description with a mailbox slave and no CoE slave
PLAIN_ENI ==
    [MOCK_ENI EXCEPT !.slaves = << Slave(NoProcessData, TRUE, FALSE),
                                   Slave(NoProcessData, FALSE, FALSE) >>]

\* a description with a CoE slave and no mailbox slave
COE_ENI ==
    [MOCK_ENI EXCEPT !.slaves = << Slave(NoProcessData, FALSE, TRUE),
                                   Slave(NoProcessData, FALSE, FALSE) >>]

InitTimers == \E cfg \in {MOCK_ENI, PLAIN_ENI, COE_ENI} : InitWith(cfg)

\* the calls that start and stop the poll loops, in any order
NextTimers ==
    \/ \E result \in InitResults, size \in DriverImageSizes(eniConfig) :
           Initialize(result, OP, size)
    \/ StartMailboxPolling
    \/ StartEmergencyPolling
    \/ StopMailboxPolling
    \/ StopEmergencyPolling
    \/ Close(FALSE, FALSE)

SpecTimers == InitTimers /\ [][NextTimers]_vars

\* the bytes user code stores into the outputs half
DirectBytes == {0, 255}

\* the cyclic exchange with user code that sets newValue of the outputs and
\* stores into the outputs half of the shared buffer between the cycles
NextDirect ==
    \/ \E size \in DriverImageSizes(eniConfig) : Initialize(0, OP, size)
    \/ \E k \in 1..Len(outputMappings) :
           \E v \in OutputValues(outputMappings[k].dataType) :
               cyclePc = "idle" /\ SetNewValue(k, v)
    \/ \E k \in 0..(eniConfig.processImage.outputs.byteSize - 1), b \in DirectBytes :
           cyclePc = "idle" /\ DirectWrite(k, b)
    \/ RunCycleBegin
    \/ RunCycleEnd(1, << >>) /\ UNCHANGED << historyVars, wireVars >>

SpecDirect == InitPdi /\ [][NextDirect]_vars

\* the public operations of a master that is closed at some time
NextClosed ==
    \/ \E result \in InitResults, st \in {PRE_OP, OP},
          size \in DriverImageSizes(eniConfig) :
              ~isClosed /\ Initialize(result, st, size)
    \/ RunCycleBegin
    \/ \E wkc \in {-1, 1} :
           RunCycleEnd(wkc, << >>) /\ UNCHANGED << historyVars, wireVars >>
    \/ \E targetState \in {SAFE_OP, OP} : RequestStateBegin(targetState)
    \/ \E result \in {-1, 0}, rejected \in BOOLEAN : WatchdogWriteEnd(result, rejected)
    \/ \E result \in {-1, 0}, size \in DriverImageSizes(eniConfig) :
           RequestStateEnd(result, rsCall.target, size)
    \/ Close(FALSE, FALSE)

SpecClosed == InitState /\ [][NextClosed]_vars

\* the two polling loops of a master that is closed at some time, with
\* checks that fail, are rejected or find new mail
NextAfterClose ==
    \/ \E result \in InitResults, size \in DriverImageSizes(eniConfig) :
           Initialize(result, OP, size)
    \/ MailboxTick
    \/ \E t \in 1..MaxMbTasks, result \in {-2, 1}, rejected \in BOOLEAN :
           (rejected => result = -2)
               /\ MailboxResume(t, result, rejected) /\ UNCHANGED wireVars
    \/ EmergencyTick(Emergency(0, 4660, 86)) /\ UNCHANGED wireVars
    \/ closeCalls = 0 /\ Close(FALSE, FALSE)

SpecAfterClose == Init /\ [][NextAfterClose]_vars

\* the emergency polling loop, stopped and started again between the reads
NextRecord ==
    \/ \E result \in InitResults, size \in DriverImageSizes(eniConfig) :
           Initialize(result, PRE_OP, size)
    \/ \E read \in EmergencyReads : EmergencyTick(read) /\ UNCHANGED wireVars
    \/ StartEmergencyPolling
    \/ StopEmergencyPolling

SpecRecord == Init /\ [][NextRecord]_vars

\* one controller, its start() and stop() called at any time
NextLoop ==
    \/ LoopStart
    \/ LoopStop
    \/ \E l \in 1..MaxLoops, result \in {1, 3}, throws \in BOOLEAN :
           CycleFnSettles(l, result, throws)
    \/ \E l \in 1..MaxLoops : WaitEnds(l)

SpecLoop == Init /\ [][NextLoop]_vars

InitBit == InitWith(BIT_ENI)

\* output mappings with a pending value that the next cycle writes
PendingOutputs ==
    { k \in 1..Len(outputMappings) :
          /\ outputMappings[k].newValue # Undefined
          /\ ~StrictEq(outputMappings[k].newValue, outputMappings[k].currentValue) }

\* one initialize(); between two cycles the user sets one digital output,
\* and the cycle writes it
NextBit ==
    \/ \E size \in DriverImageSizes(eniConfig) :
           ~initDone /\ Initialize(0, OP, size)
    \/ \E k \in 1..Len(outputMappings) :
           \E v \in OutputValues(outputMappings[k].dataType) :
               /\ cyclePc = "idle"
               /\ PendingOutputs = {}
               /\ SetNewValue(k, v)
    \/ RunCycleBegin
    \/ RunCycleEnd(1, << >>) /\ UNCHANGED << historyVars, wireVars >>

SpecBit == InitBit /\ [][NextBit]_vars

\* bit offsets of the variables of the descriptions below
MapperBitOffsets == {0, 7, 8, 11, 12, 15, 16, 19, 20, 23}

\* the variables of one half: a bit, or a 16-bit word, at one of the offsets
MapperVariables(name) ==
    { Variable(name, t[1], t[2], b) :
          t \in { << "BOOL", 1 >>, << "UINT16", 16 >> }, b \in MapperBitOffsets }

\* descriptions with a process image of 3 output and 3 input bytes and one
\* variable per half.  The first slave starts at byte 1 with bitLength bits,
\* the second has no process data, the third starts at byte offset3 with 12
\* bits (it overlaps the first, and comes later in slaves[]), the fourth has
\* process data without offsets.
MapperConfigs ==
    { [slaves |-> << Slave(ProcessData(1, bitLength, 1, bitLength), FALSE, FALSE),
                     Slave(NoProcessData, FALSE, FALSE),
                     Slave(ProcessData(offset3, 12, offset3, 12), FALSE, FALSE),
                     Slave(ProcessData(NoVal, 24, NoVal, 24), FALSE, FALSE) >>,
       processImage |-> [present |-> TRUE,
                         outputs |-> [byteSize |-> 3, variables |-> << out >>],
                         inputs  |-> [byteSize |-> 3, variables |-> << in >>]]] :
          bitLength \in {4, 8}, offset3 \in {0, 1},
          out \in MapperVariables("Out"), in \in MapperVariables("In") }

InitMapper == \E cfg \in MapperConfigs : InitWith(cfg)

\* the mapping engine, run by initialize() on each of the descriptions
NextMapper ==
    \E result \in InitResults, size \in DriverImageSizes(eniConfig) :
        Initialize(result, PRE_OP, size)

SpecMapper == InitMapper /\ [][NextMapper]_vars

-----------------------------------------------------------------------------
(* Properties of the ride-through policy, under Spec *)

\* the last completed call closes a run of consecutive -2/-4 results that
\* began with missedCycleCount = 0
InRun == lastCall.driverCalled /\ runFromZero /\ Len(run) >= 1

ReturnedCode == lastCall.outcome = "return" /\ lastCall.value = lastCall.wkc

\* C1, as stated: starting from missedCycles = 0, in a run of consecutive
\* runCycle calls with driver result -2 or -4 the first five calls return the
\* code without raising and the sixth is the first that raises
C1_SixthIsFirstToRaise ==
    InRun => /\ Len(run) <= 5 => ReturnedCode
             /\ Len(run) = 6 => lastCall.outcome = "throw"

\* C1, amended: starting from missedCycles = 0, in a run of consecutive
\* runCycle calls with driver result -2 or -4 the first four calls return the
\* code without raising and the fifth is the first that raises
C1_FifthIsFirstToRaise ==
    InRun => /\ Len(run) <= 4 => ReturnedCode
             /\ Len(run) = 5 => lastCall.outcome = "throw"

C1_Witness ==
    /\ InRun /\ Len(run) = 5 /\ lastCall.outcome = "throw"
    /\ \E k \in 1..4 : run[k] # run[k + 1]

\* C2: starting from missedCycles = 0 with a driver that returns -2 on every
\* call, the first four runCycle calls return -2 without throwing and the
\* fifth throws FfiError ("Critical Network Failure")
C2_FifthTimeoutThrowsFfiError ==
    (InRun /\ \A k \in 1..Len(run) : run[k] = -2) =>
        /\ Len(run) <= 4 => lastCall = Call(TRUE, -2, Returned(-2))
        /\ Len(run) = 5 =>
               lastCall = Call(TRUE, -2,
                               Thrown("FfiError", "Critical Network Failure", -2))

C2_Witness ==
    /\ runFromZero /\ run = << -2, -2, -2, -2, -2 >>
    /\ lastCall.outcome = "throw" /\ lastCall.error = "FfiError"

\* C3: after any runCycle call whose driver result is >= 0, missedCycles is
\* 0, whatever results and whatever counter value preceded it
C3_SuccessResetsCounter ==
    (lastCall.driverCalled /\ lastCall.wkc >= 0) => missedCycleCount = 0

C3_Witness ==
    /\ lastCall.driverCalled /\ lastCall.wkc >= 0
    /\ prevMissed >= MAX_MISSED_CYCLES /\ missedCycleCount = 0

\* C4, as stated: missedCycles is <= 5 in every reachable state, calls made
\* after a fatal ride-through error included
C4_CounterAtMostFive == missedCycleCount <= MAX_MISSED_CYCLES

\* C5: -2 and -4 advance one shared counter: a run of consecutive failing
\* cycles escalates on the same call number whatever the mix and order of -2
\* and -4 in it, and only a result >= 0 takes the counter back
C5_SharedCounter ==
    lastCall.driverCalled =>
        /\ lastCall.wkc \in {-2, -4} =>
               /\ missedCycleCount = prevMissed + 1
               /\ lastCall.outcome = "throw" <=> missedCycleCount >= MAX_MISSED_CYCLES
        /\ InRun => missedCycleCount = Len(run)
        /\ missedCycleCount < prevMissed => lastCall.wkc >= 0

C5_Witness ==
    /\ runFromZero /\ run = << -2, -4, -4, -2, -4 >>
    /\ lastCall.outcome = "throw" /\ missedCycleCount = MAX_MISSED_CYCLES

\* C6: when a runCycle call escalates, the kind of error is fixed by the
\* driver result of that call alone: -2 raises FfiError with code -2, -4
\* raises PdoIntegrityError, whichever codes filled the counter before
C6_ErrorKindByLastResult ==
    (lastCall.driverCalled /\ lastCall.outcome = "throw"
        /\ lastCall.wkc \in {-2, -4}) =>
        /\ lastCall.wkc = -2 =>
               /\ lastCall.error = "FfiError" /\ lastCall.code = -2
               /\ lastCall.message = "Critical Network Failure"
        /\ lastCall.wkc = -4 =>
               /\ lastCall.error = "PdoIntegrityError"
               /\ lastCall.message = "WKC mismatch"

C6_Witness ==
    /\ runFromZero /\ run = << -2, -2, -2, -2, -4 >>
    /\ lastCall.outcome = "throw" /\ lastCall.error = "PdoIntegrityError"

\* C7: a negative driver result other than -2 and -4 makes runCycle raise on
\* that very call for every value of missedCycles, and the call neither
\* increments nor resets missedCycles
C7_OtherNegativeFatalAtOnce ==
    (lastCall.driverCalled /\ lastCall.wkc < 0 /\ lastCall.wkc \notin {-2, -4}) =>
        /\ lastCall = Call(TRUE, lastCall.wkc,
                           Thrown("FfiError", "Cyclic task failed", lastCall.wkc))
        /\ missedCycleCount = prevMissed

C7_Witness ==
    /\ lastCall.driverCalled /\ lastCall.wkc = -3 /\ lastCall.outcome = "throw"
    /\ prevMissed = 3 /\ missedCycleCount = 3

-----------------------------------------------------------------------------
(* Properties of the process image, under SpecPdi *)

\* v is the integer that the bytes ds hold, least significant byte first
IntegerIn(v, ds, signed) ==
    /\ v.kind = "int"
    /\ v.neg <=> (signed /\ ds[Len(ds)] >= 128)
    /\ \A i \in (Len(ds) + 1)..8 : v.mag[i] = 0
    /\ IF v.neg THEN AddDigits(SubSeq(v.mag, 1, Len(ds)), ds) = Zeros(Len(ds))
       ELSE SubSeq(v.mag, 1, Len(ds)) = ds

\* v is the IEEE 754 binary32 number that the bytes ds hold, least
\* significant byte first
Binary32In(v, ds) ==
    IF ds[4] % 128 = 127 /\ ds[3] >= 128 /\ << ds[1], ds[2], ds[3] % 128 >> # Zeros(3)
    THEN v.kind = "nan"
    ELSE /\ v.kind = "f32"
         /\ v.neg <=> ds[4] >= 128
         /\ v.exp = 2 * (ds[4] % 128) + (ds[3] \div 128)
         /\ v.mag = Pad8(<< ds[1], ds[2], ds[3] % 128 >>)

\* v is the IEEE 754 binary64 number that the bytes ds hold
Binary64In(v, ds) ==
    IF ds[8] % 128 = 127 /\ ds[7] >= 240
       /\ << ds[1], ds[2], ds[3], ds[4], ds[5], ds[6], ds[7] % 16 >> # Zeros(7)
    THEN v.kind = "nan"
    ELSE /\ v.kind = "f64"
         /\ v.neg <=> ds[8] >= 128
         /\ v.exp = 16 * (ds[8] % 128) + (ds[7] \div 16)
         /\ v.mag = Pad8(<< ds[1], ds[2], ds[3], ds[4], ds[5], ds[6], ds[7] % 16 >>)

\* the bytes of the value of the mapping, first byte of the buffer first
BytesAt(bytes, mapping) ==
    [i \in 1..Width(mapping.dataType) |-> bytes[mapping.pdiByteOffset + i]]

\* the 64-bit integer in ds is one a double holds exactly for every value of
\* its low bits: its magnitude is below 2^53
SafeInteger(ds) ==
    TopBit(IF ds[8] >= 128 THEN Negate(ds) ELSE ds) <= 52

\* v is the little-endian deserialization of the bytes of the mapping, by
\* its declared type; wide is what holds of an INT64 outside the safe range
Deserialized(v, bytes, mapping, wide) ==
    LET t  == mapping.dataType
        ds == BytesAt(bytes, mapping)
    IN  CASE t = "BOOL" ->
                 /\ v.kind = "boolean"
                 /\ v = Bool(TRUE) <=>
                        (bytes[mapping.pdiByteOffset + 1]
                             % Pow2(mapping.bitOffset + 1)) >= Pow2(mapping.bitOffset)
          [] t \in {"UINT8", "UINT16", "UINT32"} -> IntegerIn(v, ds, FALSE)
          [] t \in {"SINT8", "INT16", "INT32"} -> IntegerIn(v, ds, TRUE)
          [] t = "INT64" -> IF SafeInteger(ds) THEN IntegerIn(v, ds, TRUE) ELSE wide
          [] t = "REAL32" -> Binary32In(v, ds)
          [] t \in {"REAL64", "LREAL"} -> Binary64In(v, ds)

\* a runCycle call completes in this step
CallCompletes == callParity' # callParity

\* the last runCycle returned a working counter >= 0 on a PDI buffer
ReturnedOnPdi ==
    /\ lastCall.driverCalled /\ lastCall.outcome = "return" /\ lastCall.value >= 0
    /\ pdiView /\ ~pdiBuffer.null

InputNamed(name) ==
    inputMappings[CHOOSE k \in 1..Len(inputMappings) :
                      inputMappings[k].variableName = name]

InputValues == [k \in 1..Len(inputMappings) |-> inputMappings[k].currentValue]

-----------------------------------------------------------------------------
(* Properties of the mailbox polling, under SpecMailbox *)

\* a check of the slave is pending in the driver
CheckPending(index) ==
    \E t \in 1..Len(mbTasks) : mailboxSlaves(eniConfig)[mbTasks[t].pos] = index

\* C10, as stated: for a slave whose checkMailbox always returns 1, the
\* lastToggle argument of its consecutive polls is 2, 0, 1, 0, 1, ...: the
\* sentinel 2 on the first poll and strictly alternating 0/1 afterwards,
\* for each polled slave on its own
C10_TogglesAlternate ==
    \A index \in DOMAIN mbPolls :
        (mbAllOnes[index] /\ ~CheckPending(index)) =>
            \A k \in 1..Len(mbPolls[index]) :
                mbPolls[index][k] = IF k = 1 THEN FirstRunToggle ELSE k % 2

\* two ticks have polled a slave with the sentinel and both checks returned 1
C10_Witness ==
    \E index \in DOMAIN mbPolls :
        /\ mbAllOnes[index] /\ ~CheckPending(index)
        /\ mbPolls[index] = << FirstRunToggle, FirstRunToggle >>
        /\ mailboxToggleBits[index] = 0

-----------------------------------------------------------------------------
(* C11: a retry failure of the mailbox check is reported and is not fatal *)

\* a check of the mailbox of a slave completes with the result, on an open
\* master
CheckCompletes(result) ==
    /\ mbLast'.flip # mbLast.flip
    /\ ~mbLast'.rejected
    /\ mbLast'.result = result
    /\ ~isClosed

\* C11: while the master is open, a mailbox check that returns -2 for a slave
\* emits exactly one mailboxError event, which carries the index of the slave;
\* the stored toggle of the slave stays as it was, the next slave of the same
\* tick (if any) is polled, and the polling timer stays armed, so that later
\* ticks poll the slave again.
C11_RetryFailureIsNonFatal ==
    [][ /\ CheckCompletes(-2) =>
             LET index == mbLast'.index
                 slaves == mailboxSlaves(eniConfig)
             IN  /\ Len(mbEvents') = Len(mbEvents) + 1
                 /\ SubSeq(mbEvents', 1, Len(mbEvents)) = mbEvents
                 /\ mbEvents'[Len(mbEvents')].slaveIndex = index
                 /\ mailboxToggleBits'[index] = mailboxToggleBits[index]
                 /\ mbLast'.pos < Len(slaves) =>
                        Len(mbPolls'[slaves[mbLast'.pos + 1]]) =
                            Len(mbPolls[slaves[mbLast'.pos + 1]]) + 1
                 /\ mailboxPollingInterval'
        /\ (mailboxPollingInterval /\ ~isClosed') => mailboxPollingInterval'
      ]_vars

\* a slave whose check returned -2 has been reported and polled again
C11_Witness ==
    \E i \in SlaveIndexes(eniConfig) :
        /\ mbFailedAt[i] # NoVal
        /\ Len(mbPolls[i]) > mbFailedAt[i]
        /\ \E k \in 1..Len(mbEvents) :
               mbEvents[k].slaveIndex = i /\ mbEvents[k].code = -2
        /\ ~isClosed

-----------------------------------------------------------------------------
(* C12, C13: emergency events *)

\* the emergency loop has read the driver in this step
ReadCompletes == emLast'.flip # emLast.flip

\* the last event of the slave among the events, NoEmergency if there is none
LastEmitted(events, slaveId) ==
    LET F[k \in 0..Len(events)] ==
            IF k = 0 THEN NoEmergency
            ELSE IF events[k].slaveId = slaveId THEN events[k] ELSE F[k - 1]
    IN  F[Len(events)]

SameError(a, b) == a.errorCode = b.errorCode /\ a.errorReg = b.errorReg

\* C12: a read emits at most one event, and none when it repeats the read
\* before it; a read equal in errorCode and errorRegister to the last event
\* emitted for its slave emits nothing, and a read that differs from that event
\* in errorCode or errorRegister emits exactly one event, the read itself.
C12_OneEventPerRun ==
    [][ (ReadCompletes /\ emLast'.read # NoEmergency) =>
            LET read == emLast'.read
                prev == LastEmitted(emEvents, read.slaveId)
            IN  /\ emLast.read = read => emEvents' = emEvents
                /\ (prev # NoEmergency /\ SameError(prev, read)) => emEvents' = emEvents
                /\ (prev # NoEmergency /\ ~SameError(prev, read)) =>
                        emEvents' = Append(emEvents, read)
                /\ Len(emEvents') <= Len(emEvents) + 1
      ]_vars

\* a slave has had two events, and a read in between or after was dropped
C12_Witness ==
    /\ emReads = 3
    /\ Len(emEvents) = 2
    /\ emEvents[1].slaveId = emEvents[2].slaveId
    /\ SameError(emLast.read, emEvents[2])
    /\ emLast.read.slaveId = emEvents[2].slaveId

\* C13: a read that names a slave id which is not a CoE slave of the
\* description (supportsCoE not true, or no slave of that index) emits no event
\* and leaves the record of every slave as it was; no event ever carries such
\* a slave id.
C13_NoEventForNonCoeSlave ==
    [][ /\ (ReadCompletes /\ emLast'.read # NoEmergency
                          /\ ~isCoeSlave(eniConfig, emLast'.read.slaveId)) =>
                (emEvents' = emEvents /\ lastEmergencySlave' = lastEmergencySlave)
        /\ \A k \in 1..Len(emEvents') : isCoeSlave(eniConfig, emEvents'[k].slaveId)
      ]_vars

\* reads for the slave without CoE and for an index outside slaves[] have been
\* dropped after an event of a CoE slave
C13_Witness ==
    /\ emReads = 3
    /\ Len(emEvents) = 1
    /\ emLast.read.slaveId \in {2, 3}
    /\ ~eniConfig.slaves[3].supportsCoE

-----------------------------------------------------------------------------
(* C14, C15, C16: close *)

\* a close() call ends in this step
CloseCompletes == closeCalls' # closeCalls

\* the driver calls of the two polling loops so far
PollCalls == << mbPolls, emReads >>

\* C14: a close() call on a master that is already closed returns, clears no
\* timer, calls neither the driver nor the library, and leaves every field of
\* the master as it was.
C14_CloseIsIdempotent ==
    [][ (CloseCompletes /\ isClosed) =>
            /\ closeLast' = "returned"
            /\ closeOps' = closeOps
            /\ UNCHANGED << eniConfig, initDone, isClosed, dlOpen, drvState, drvPdiSize >>
            /\ UNCHANGED cycleVars
            /\ UNCHANGED << mailboxPollingInterval, mailboxToggleBits, mbTasks,
                            emergencyPollingInterval, lastEmergencySlave >>
            /\ UNCHANGED PollCalls
      ]_vars

\* close() has been called three times on an initialized master
C14_Witness ==
    /\ closeCalls = 3
    /\ isClosed
    /\ initDone
    /\ closeLast = "returned"
    /\ Len(closeOps) = 4

\* C15: on a closed master neither the mailbox loop nor the emergency loop
\* calls the driver: no step taken while isClosed holds adds a mailbox check or
\* an emergency read, the resumption of a mailbox tick that was awaiting the
\* driver when close() was called included.
C15_NoPollAfterClose ==
    [][ isClosed => PollCalls' = PollCalls ]_vars

\* the check of the first mailbox slave was in flight when close() was called
\* and has completed since: the second mailbox slave has never been polled
C15_Witness ==
    /\ isClosed
    /\ mbTasks = << >>
    /\ mbLast.flip = 1
    /\ mbLast.pos = 1
    /\ Len(mbPolls[mailboxSlaves(eniConfig)[1]]) = 1
    /\ Len(mbPolls[mailboxSlaves(eniConfig)[2]]) = 0

\* C16: the first close() of a master returns, whether or not the driver's
\* destroy or the release of the library fails, and leaves the master closed,
\* both timers cancelled and the PDI buffer released.
C16_CloseNeverThrows ==
    [][ (CloseCompletes /\ ~isClosed) =>
            /\ closeLast' = "returned"
            /\ isClosed'
            /\ ~mailboxPollingInterval' /\ ~emergencyPollingInterval'
            /\ pdiBuffer' = NullBuffer /\ ~pdiView'
      ]_vars

\* close() has raised on a master with a PDI buffer, which is still there
C16_ThrownWitness ==
    /\ closeLast = "thrown"
    /\ isClosed
    /\ ~pdiBuffer.null
    /\ ~mailboxPollingInterval /\ ~emergencyPollingInterval

-----------------------------------------------------------------------------
(* C17: mutual exclusion on the wire *)

\* the mailbox checks and emergency reads among the operations
PollOps(wire) == { o \in wire : o.op \in {"mailbox", "emergency"} }

-----------------------------------------------------------------------------
(* C18, C19, C20: requestState *)

\* the last requestState call has started with the watchdog configuration
\* (a request from PreOp to SafeOp with master.watchdogTimeoutMs set) and has
\* left it behind
Configured ==
    /\ Len(rsLog) > 0
    /\ rsLog[1].symbol = "ethercrab_register_write_u16"
    /\ rsPc # "watchdog"

\* the driver calls of a configured request: one write of the value to
\* register 0x0420 per slave, in slave order, then the state request
WritesThenRequest(value) ==
    LET n == Len(eniConfig.slaves)
    IN  /\ Len(rsLog) = n + 1
        /\ \A i \in 1..n : rsLog[i] = WatchdogWrite(i - 1, value)
        /\ rsLog[n + 1] = RequestCall(SAFE_OP)

\* C18: once a request from PreOp to SafeOp with master.watchdogTimeoutMs set
\* has issued its state request, register 0x0420 of every slave that took the
\* write holds watchdogTimeoutMs x 10, and the writes, one per slave of
\* slaves[], have all been issued before the state request.
C18_WatchdogWrittenBeforeRequest ==
    Configured =>
        /\ rsLast.before = PRE_OP
        /\ WritesThenRequest(eniConfig.master.watchdogTimeoutMs * 10)
        /\ \A i \in SlaveIndexes(eniConfig) \ rsFailed :
               smWatchdog[i] = eniConfig.master.watchdogTimeoutMs * 10

\* with watchdogTimeoutMs = 7000 the register of a slave that took the write
\* holds 4464
C18_WrappedWitness ==
    /\ Configured
    /\ eniConfig.master.watchdogTimeoutMs = 7000
    /\ rsFailed = {}
    /\ \A i \in SlaveIndexes(eniConfig) : smWatchdog[i] = 4464

\* C19: whichever slaves fail the watchdog write, the write is attempted on
\* every slave in turn, the state request is issued after the last of them,
\* and the call ends as the state request ends: never with the error of a
\* write.
C19_RejectedWritesDoNotFail ==
    Configured =>
        /\ WritesThenRequest(eniConfig.master.watchdogTimeoutMs * 10)
        /\ rsPc = "idle" =>
               rsLast.outcome = IF rsLast.result < 0 THEN "StateTransitionError"
                                ELSE "returned"

\* the first and the last slave have failed the write and the transition has
\* succeeded
C19_Witness ==
    /\ Configured
    /\ rsPc = "idle"
    /\ rsFailed = {0, 2}
    /\ rsLast.outcome = "returned"
    /\ drvState = SAFE_OP

\* a requestState call ends in this step
RequestCompletes == rsCalls' # rsCalls

-----------------------------------------------------------------------------
(* C21, C22, C23: the mapping engine *)

\* the variables of a half of the process image, and the mappings of a half
VariablesOf(isInput) ==
    IF isInput THEN eniConfig.processImage.inputs.variables
    ELSE eniConfig.processImage.outputs.variables

MappingsOf(isInput) == IF isInput THEN inputMappings ELSE outputMappings

\* the bit b lies in the range [startBit, startBit + bitLength) that slave i
\* (1-based in slaves[]) declares in the half
InRangeOf(i, b, isInput) ==
    LET slave    == eniConfig.slaves[i]
        offset   == IF isInput THEN slave.inputOffset ELSE slave.outputOffset
        length   == IF isInput THEN slave.inputBitLength ELSE slave.outputBitLength
    IN  /\ slave.hasProcessData
        /\ offset # NoVal /\ length # NoVal
        /\ 8 * offset <= b
        /\ b < 8 * offset + length

Owners(b, isInput) ==
    { i \in 1..Len(eniConfig.slaves) : InRangeOf(i, b, isInput) }

\* C21: after the mappings are built, a variable of a half has a mapping (of
\* that half, under its name) if and only if the range of some slave in that
\* half contains its bit offset, and the mapping names the first such slave of
\* slaves[]; the other variables have no mapping and nothing is raised.
C21_MappedIffInSomeRange ==
    initDone =>
        \A isInput \in BOOLEAN :
            \A k \in 1..Len(VariablesOf(isInput)) :
                LET v      == VariablesOf(isInput)[k]
                    owners == Owners(v.bitOffset, isInput)
                    found  == { j \in 1..Len(MappingsOf(isInput)) :
                                   MappingsOf(isInput)[j].variableName = v.name }
                IN  /\ (found # {}) <=> (owners # {})
                    /\ \A j \in found :
                           /\ MappingsOf(isInput)[j].slaveIndex \in owners
                           /\ \A i \in owners : MappingsOf(isInput)[j].slaveIndex <= i

\* the output lies in the ranges of the first and of the third slave and is
\* mapped; the input lies in no range and is dropped
C21_Witness ==
    /\ initDone
    /\ Owners(eniConfig.processImage.outputs.variables[1].bitOffset, FALSE) = {1, 3}
    /\ Len(outputMappings) = 1
    /\ Owners(eniConfig.processImage.inputs.variables[1].bitOffset, TRUE) = {}
    /\ Len(inputMappings) = 0

\* floor(b / 8): the q with 8q <= b < 8q + 8
FloorDiv8(b) == CHOOSE q \in 0..b : 8 * q <= b /\ b < 8 * q + 8

\* C22: the mapping built from a variable with bit offset b has pdiByteOffset
\* floor(b/8) if it is an output and outputSize + floor(b/8) if it is an input,
\* and for a BOOL variable the stored bitOffset is b mod 8.
C22_ByteAndBitOffsets ==
    initDone =>
        \A isInput \in BOOLEAN :
            \A j \in 1..Len(MappingsOf(isInput)) :
                \A k \in 1..Len(VariablesOf(isInput)) :
                    LET m == MappingsOf(isInput)[j]
                        v == VariablesOf(isInput)[k]
                        q == FloorDiv8(v.bitOffset)
                    IN  m.variableName = v.name =>
                            /\ m.pdiByteOffset =
                                   IF isInput
                                   THEN eniConfig.processImage.outputs.byteSize + q
                                   ELSE q
                            /\ v.dataType = "BOOL" => m.bitOffset = v.bitOffset - 8 * q

\* a BOOL input at bit 19 is mapped to bit 3 of byte 3 + 2
C22_Witness ==
    /\ initDone
    /\ Len(inputMappings) = 1
    /\ inputMappings[1].dataType = "BOOL"
    /\ eniConfig.processImage.inputs.variables[1].bitOffset = 19
    /\ inputMappings[1].pdiByteOffset = 5
    /\ inputMappings[1].bitOffset = 3

\* the byte after the last byte of the mapping
EndByte(m) ==
    LET bits == (IF m.bitOffset = NoBit THEN 0 ELSE m.bitOffset) + m.bitSize
    IN  m.pdiByteOffset + ((bits + 7) \div 8)

\* C23: every mapping ends inside the PDI and lies inside its own half: an
\* output mapping ends at or before byte outputSize, an input mapping starts at
\* or after byte outputSize.
C23_MappingsInsideTheirHalf ==
    LET outputSize == eniConfig.processImage.outputs.byteSize
        inputSize  == eniConfig.processImage.inputs.byteSize
    IN  /\ \A j \in 1..Len(outputMappings) :
               EndByte(outputMappings[j]) <= outputSize
        /\ \A j \in 1..Len(inputMappings) :
               /\ inputMappings[j].pdiByteOffset >= outputSize
               /\ EndByte(inputMappings[j]) <= outputSize + inputSize

\* a 16-bit output at the last byte of the outputs half, and a 16-bit input at
\* the last byte of the PDI, are mapped
C23_OverrunWitness ==
    /\ initDone
    /\ Len(outputMappings) = 1 /\ Len(inputMappings) = 1
    /\ outputMappings[1].dataType = "UINT16" /\ outputMappings[1].pdiByteOffset = 2
    /\ inputMappings[1].dataType = "UINT16" /\ inputMappings[1].pdiByteOffset = 5

-----------------------------------------------------------------------------
(* C24: bit writes *)

\* bit i of a byte
BitOf(byte, i) == (byte \div Pow2(i)) % 2

\* runCycle writes the outputs into the buffer it already has
WritesOutputs ==
    /\ cyclePc = "idle" /\ cyclePc' = "awaiting"
    /\ pdiView /\ ~pdiBuffer.null
    /\ Len(pdiBuffer'.bytes) = Len(pdiBuffer.bytes)

\* C24: when a cycle writes the pending value of one BOOL output mapping, the
\* mapped bit of the PDI becomes the value written (reading the mapping back
\* yields it), the other seven bits of that byte and every other byte of the
\* PDI are as before.
C24_BitWriteKeepsOtherBits ==
    [][\A k \in 1..Len(outputMappings) :
          (WritesOutputs /\ PendingOutputs = {k}
              /\ outputMappings[k].dataType = "BOOL") =>
             LET m   == outputMappings[k]
                 old == pdiBuffer.bytes
                 new == pdiBuffer'.bytes
             IN  /\ readValueFromBuffer(new, m) = m.newValue
                 /\ BitOf(new[m.pdiByteOffset + 1], m.bitOffset) =
                        (IF m.newValue = Bool(TRUE) THEN 1 ELSE 0)
                 /\ \A i \in 0..7 :
                        i # m.bitOffset =>
                            BitOf(new[m.pdiByteOffset + 1], i) =
                            BitOf(old[m.pdiByteOffset + 1], i)
                 /\ \A j \in 1..Len(old) :
                        j # m.pdiByteOffset + 1 => new[j] = old[j]]_vars

\* bit 2 was cleared in a byte whose other seven bits are set
C24_Witness ==
    /\ initDone
    /\ pdiBuffer.bytes = << 0, 251, 0 >>
    /\ outputMappings[3].currentValue = Bool(FALSE)
    /\ \A k \in {1, 2, 4, 5, 6, 7, 8} : outputMappings[k].currentValue = Bool(TRUE)

-----------------------------------------------------------------------------
(* C25: the layout of a discovered description *)

\* the slaves of the discovered description that have process data
Ranged == { i \in 1..Len(discovered.slaves) : discovered.slaves[i].hasProcessData }

RangeStart(i, isInput) ==
    8 * (IF isInput THEN discovered.slaves[i].inputOffset
         ELSE discovered.slaves[i].outputOffset)

RangeBits(i, isInput) ==
    IF isInput THEN discovered.slaves[i].inputBitLength
    ELSE discovered.slaves[i].outputBitLength

\* the bits of the ranges of the slaves before slave i
RECURSIVE BitsOfSlavesBefore(_, _)
BitsOfSlavesBefore(i, isInput) ==
    IF i <= 1 THEN 0
    ELSE BitsOfSlavesBefore(i - 1, isInput)
            + (IF i - 1 \in Ranged THEN RangeBits(i - 1, isInput) ELSE 0)

\* the bits of the entries of the sync manager before entry e
RECURSIVE BitsOfEntriesBefore(_, _, _)
BitsOfEntriesBefore(entries, e, sm) ==
    IF e <= 1 THEN 0
    ELSE BitsOfEntriesBefore(entries, e - 1, sm)
            + (IF entries[e - 1].sm = sm THEN entries[e - 1].bitLen ELSE 0)

\* C25: in a description returned by discovery, in each direction the range of
\* a slave is a whole number of bytes and starts where the ranges of the
\* slaves before it end, so the byte offsets do not decrease along slaves[]
\* and the ranges of two slaves share no bit; the pdiOffset of an input or
\* output entry is floor(cursor / 8), the cursor being the start of the
\* slave's range plus the bits of its earlier entries of that direction.
C25_DiscoveredRangesAreContiguous ==
    dscLast = "found" =>
        \A isInput \in BOOLEAN :
            /\ \A i \in Ranged :
                   /\ RangeBits(i, isInput) % 8 = 0
                   /\ RangeStart(i, isInput) = BitsOfSlavesBefore(i, isInput)
                   /\ \A j \in Ranged :
                          i < j =>
                             /\ RangeStart(i, isInput) <= RangeStart(j, isInput)
                             /\ RangeStart(i, isInput) + RangeBits(i, isInput)
                                    <= RangeStart(j, isInput)
            /\ \A i \in Ranged :
                   LET entries == discovered.slaves[i].entries
                       sm      == IF isInput THEN 3 ELSE 2
                   IN  \A e \in 1..Len(entries) :
                           entries[e].sm = sm =>
                               entries[e].pdiOffset =
                                   FloorDiv8(RangeStart(i, isInput)
                                                + BitsOfEntriesBefore(entries, e, sm))

\* three slaves found: three input bits, then an output bit, an output byte
\* and twelve input bits, then sixteen output bits and an input byte
C25_Witness ==
    /\ dscLast = "found"
    /\ Len(discovered.slaves) = 3
    /\ discovered.slaves[1].inputBitLength = 8
    /\ Len(discovered.slaves[1].entries) = 3
    /\ discovered.slaves[2].inputOffset = 1
    /\ discovered.slaves[2].inputBitLength = 16
    /\ discovered.slaves[2].entries[2].pdiOffset = 0
    /\ discovered.slaves[3].inputOffset = 3
    /\ discovered.slaves[3].outputOffset = 2

-----------------------------------------------------------------------------
(* C26: the retries of the scan *)

\* the entries of the log of the last call with the operation op
LogOf(op) == { k \in 1..Len(dscLog) : dscLog[k].op = op }

\* C26: a call of discoverNetwork starts the scan at most 5 times, it waits
\* min(50 * 2^k, 500) ms, 20% more or less, before retry k, it gives up as
\* busy only after a scan that was not followed by a wait, and a permission
\* error ends the call with no wait and no scan after it.
C26_AtMostFiveScans ==
    /\ Cardinality(LogOf("ethercrab_scan_new")) <= 5
    /\ \A k \in LogOf("wait") :
           LET raw == IF 50 * Pow2(dscLog[k].attempt) < 500
                      THEN 50 * Pow2(dscLog[k].attempt) ELSE 500
           IN  /\ 10 * dscLog[k].delay >= 8 * raw
               /\ 10 * dscLog[k].delay <= 12 * raw
    /\ dscLast \in {"busy", "permission"} =>
           /\ dscPc = "idle"
           /\ dscLog[Len(dscLog)].op = "ethercrab_scan_new"

\* the call gave up after a sixth scan
C26_SixScansWitness ==
    /\ dscLast = "busy"
    /\ Cardinality(LogOf("ethercrab_scan_new")) = 6
    /\ Cardinality(LogOf("wait")) = 5

-----------------------------------------------------------------------------
(* C27: discovery and the cyclic exchange *)

\* a call of discoverNetwork begins: it destroys the driver's state and
\* starts its first scan
DiscoveryStarts == dscPc = "idle" /\ dscPc' = "scanning"

\* the master of the process is initialized and not closed
MasterOpen == initDone /\ ~isClosed

\* C27: a discovery begins (its cleanup destroys the driver's state, its
\* scan starts) only when no master of the process is open, hence never while
\* a master exchanges process data.
C27_DiscoveryExcludesCyclicExchange ==
    [][DiscoveryStarts => ~MasterOpen]_vars

\* the driver's state was destroyed and the scan started with the master open
\* and its cycle in the driver
C27_DestroyedWitness ==
    /\ MasterOpen
    /\ cyclePc = "awaiting"
    /\ dscPc = "scanning"
    /\ dscLog = << DriverOp("ethercrab_destroy"), DriverOp("ethercrab_scan_new") >>

-----------------------------------------------------------------------------
(* C28: the outputs of a cycle *)

\* runCycle reaches the driver's transmit with a PDI buffer present
Transmits ==
    /\ cyclePc = "idle" /\ cyclePc' = "awaiting"
    /\ pdiView' /\ ~pdiBuffer'.null

\* the bytes of the PDI hold the value at the place of the mapping m: the bit
\* of a BOOL, the low byte of a UINT8
Holds(bytes, m, value) ==
    IF m.dataType = "BOOL"
    THEN BitOf(bytes[m.pdiByteOffset + 1], m.bitOffset) =
            (IF value = Bool(TRUE) THEN 1 ELSE 0)
    ELSE bytes[m.pdiByteOffset + 1] = value.mag[1]

\* C28: when a runCycle with a PDI buffer reaches the driver's transmit,
\* whatever the result of the cycle before, every output mapping that had a
\* pending newValue different from its last known value has that value in
\* the PDI and as its last known value; a mapping whose newValue was equal to
\* its last known value (or undefined) keeps it, and when no mapping was
\* pending the bytes of the buffer are as before.
C28_PendingOutputsWrittenBeforeTransmit ==
    [][Transmits =>
          /\ \A k \in 1..Len(outputMappings) :
                 IF k \in PendingOutputs
                 THEN /\ outputMappings'[k].currentValue = outputMappings[k].newValue
                      /\ Holds(pdiBuffer'.bytes, outputMappings[k],
                               outputMappings[k].newValue)
                 ELSE outputMappings'[k].currentValue = outputMappings[k].currentValue
          /\ (PendingOutputs = {} /\ Len(pdiBuffer.bytes) = Len(pdiBuffer'.bytes))
                 => pdiBuffer'.bytes = pdiBuffer.bytes]_vars

\* the cycle after a timed-out cycle is in the driver with both outputs written
C28_Witness ==
    /\ cyclePc = "awaiting"
    /\ missedCycleCount = 1 /\ callParity = 1
    /\ pdiView /\ ~pdiBuffer.null
    /\ Len(outputMappings) = 2
    /\ outputMappings[1].currentValue = Bool(TRUE)
    /\ BitOf(pdiBuffer.bytes[1], 3) = 1
    /\ outputMappings[2].currentValue = Num(FALSE, << 255, 1 >>)
    /\ pdiBuffer.bytes[2] = 255

-----------------------------------------------------------------------------
(* C29: the slaves of the mailbox poll *)

CoeSlaves == { index \in SlaveIndexes(eniConfig) : eniConfig.slaves[index + 1].supportsCoE }

\* C29: the mailbox poll checks the slaves with supportsCoE and no other: a
\* slave without supportsCoE is never checked, and whenever no tick is under
\* way on an open master every slave with supportsCoE has been checked once
\* per tick, hence as often as every other.
C29_PollsExactlyCoeSlaves ==
    /\ \A index \in SlaveIndexes(eniConfig) \ CoeSlaves : mbPolls[index] = << >>
    /\ (mbTasks = << >> /\ ~isClosed) =>
           \A i \in CoeSlaves : \A j \in CoeSlaves : Len(mbPolls[i]) = Len(mbPolls[j])

\* after two ticks the slave without CoE was checked twice and the CoE slave
\* without mailbox configuration never
C29_MixedWitness ==
    /\ initDone /\ mbTasks = << >>
    /\ Len(mbPolls[0]) = 2
    /\ Len(mbPolls[1]) = 0
    /\ Len(mbPolls[2]) = 2

-----------------------------------------------------------------------------
(* C30: requests to a state that is not the next one *)

\* the last requestState call has issued its state request
Requested ==
    /\ Len(rsLog) > 0
    /\ rsLog[Len(rsLog)].symbol = "ethercrab_request_state"

\* the legal path from the state before the call to its target leads through
\* the transition from PreOp to SafeOp
PassesPreOpToSafeOp ==
    /\ rsLast.before \in {INIT, PRE_OP}
    /\ rsLog[Len(rsLog)].value \in {SAFE_OP, OP}

\* C30: a request whose legal path leads through PreOp to SafeOp, from Init
\* or PreOp to SafeOp or Op, performs the actions of that transition: with
\* master.watchdogTimeoutMs set, the watchdog register of every slave is
\* written before the state request is issued.
C30_GateActionsOnEveryPath ==
    (Requested /\ PassesPreOpToSafeOp /\ eniConfig.master.watchdogTimeoutMs # NoVal) =>
        /\ Len(rsLog) = Len(eniConfig.slaves) + 1
        /\ \A i \in 1..Len(eniConfig.slaves) :
               /\ rsLog[i].symbol = "ethercrab_register_write_u16"
               /\ rsLog[i].slave = i - 1
               /\ rsLog[i].address = SM_WATCHDOG

\* Op was requested in Init and reached: the one driver call is the request
\* of Op, no watchdog register was written
C30_DirectWitness ==
    /\ rsPc = "idle"
    /\ rsLast.before = INIT /\ rsLast.outcome = "returned"
    /\ drvState = OP
    /\ rsLog = << RequestCall(OP) >>
    /\ eniConfig.master.watchdogTimeoutMs = 200
    /\ \A i \in SlaveIndexes(eniConfig) : smWatchdog[i] = NoVal

-----------------------------------------------------------------------------
(* C31, C32: init commands *)

\* the descriptor of the command at place k of the buffer
DescriptorOf(k) == allInitCmds(eniConfig)[k].cmd

\* C31: every init command the driver has executed was executed in a
\* transition step that its descriptor lists, the commands of one step were
\* executed in the order of their descriptors, and no command was executed
\* twice.
C31_InitCommandsInTheirTransitions ==
    /\ \A n \in 1..Len(initCmdLog) :
           initCmdLog[n].step \in DescriptorOf(initCmdLog[n].k).transition
    /\ \A n \in 1..Len(initCmdLog) : \A m \in 1..Len(initCmdLog) :
           (n < m /\ initCmdLog[n].step = initCmdLog[m].step) =>
               initCmdLog[n].k < initCmdLog[m].k

\* a download listed for Init to PreOp only and a download listed for SafeOp
\* to Op only were given to the driver in one ethercrab_init, and executed
C31_SameStepWitness ==
    /\ initDone
    /\ Len(initCmdLog) = 3
    /\ DescriptorOf(1).transition = {"IP"}
    /\ DescriptorOf(2).transition = {"SO"}
    /\ initCmdLog[1].step = initCmdLog[2].step

\* C32: the value the driver is given for an init command is the whole value
\* of the command: no command whose value needs more than 32 bits is in the
\* buffer with the value reduced modulo 2^32.
C32_InitValuesNotTruncated ==
    \A k \in 1..Len(drvInitCmds) :
        \A d \in 1..Len(DescriptorOf(k).value) :
            DescriptorOf(k).value[d] =
                (IF d <= Len(drvInitCmds[k].value) THEN drvInitCmds[k].value[d] ELSE 0)

\* a download of 2^32 + 1 was given to the driver as 1
C32_TruncatedWitness ==
    /\ initDone
    /\ Len(drvInitCmds) = 3
    /\ DescriptorOf(1).value = << 1, 0, 0, 0, 1, 0, 0, 0 >>
    /\ drvInitCmds[1].value = << 1, 0, 0, 0 >>

-----------------------------------------------------------------------------
(* C33: the interval timers *)

\* the timers a start of a poll loop has set: the mailbox loop's are those
\* set while the mailbox field took a new timer
TimersHeld == {mbTimerId, emTimerId} \ {NoTimer}

\* C33: the active interval timers are the ones the two fields hold, so at
\* most one mailbox timer and at most one emergency timer are active;
\* each field is defined exactly when its timer is, and the emergency
\* field holds no timer when no slave of the description supports CoE.
C33_AtMostOneTimerOfEachKind ==
    /\ activeTimers = TimersHeld
    /\ mbTimerId # NoTimer => mbTimerId # emTimerId
    /\ mailboxPollingInterval = (mbTimerId # NoTimer)
    /\ emergencyPollingInterval = (emTimerId # NoTimer)
    /\ ~startEmergencyPolling(eniConfig) => emTimerId = NoTimer

\* both loops were started again after initialize() had started them
C33_RestartedWitness ==
    /\ initDone /\ ~isClosed
    /\ timerCount = 4
    /\ Cardinality(activeTimers) = 2

\* a description without CoE slave after initialize() and a direct start of
\* the emergency loop
C33_NoCoeWitness ==
    /\ initDone /\ ~isClosed
    /\ eniConfig = PLAIN_ENI
    /\ timerCount = 3
    /\ Cardinality(activeTimers) = 1

-----------------------------------------------------------------------------
(* C34: the outputs after a store into the shared buffer *)

\* C34: when a runCycle with a PDI buffer reaches the driver's transmit, the
\* PDI holds newValue at the place of every output mapping whose newValue is
\* defined, whatever was stored into the buffer since the value was written.
C34_OutputsEncodeNewValueAtTransmit ==
    [][Transmits =>
          \A k \in 1..Len(outputMappings) :
              outputMappings[k].newValue # Undefined =>
                  Holds(pdiBuffer'.bytes, outputMappings[k], outputMappings[k].newValue)]_vars

\* a cycle is in the driver with newValue 511 of the UINT8 output written
\* earlier (it is the last known value) and the byte of the output 0
C34_OverwrittenWitness ==
    /\ cyclePc = "awaiting"
    /\ pdiView /\ ~pdiBuffer.null
    /\ Len(outputMappings) = 2
    /\ outputMappings[2].newValue = Num(FALSE, << 255, 1 >>)
    /\ outputMappings[2].currentValue = Num(FALSE, << 255, 1 >>)
    /\ pdiBuffer.bytes[2] = 0

-----------------------------------------------------------------------------
(* C35: overlapping mailbox checks *)

\* the checks of the slave index the driver has not answered yet
OutstandingChecks(index) ==
    { t \in 1..Len(mbTasks) : mailboxSlaves(eniConfig)[mbTasks[t].pos] = index }

\* C35: at most one mailbox check of a slave is outstanding, so no two
\* outstanding checks of a slave were issued with the same stored toggle.
C35_OneOutstandingCheckPerSlave ==
    \A index \in SlaveIndexes(eniConfig) : Cardinality(OutstandingChecks(index)) <= 1

\* two ticks have each issued a check of slave 0 with the first-run toggle
C35_OverlapWitness ==
    /\ initDone /\ ~isClosed
    /\ Len(mbTasks) = 2
    /\ OutstandingChecks(0) = {1, 2}
    /\ mbTasks[1].lastToggle = FirstRunToggle
    /\ mbTasks[2].lastToggle = FirstRunToggle

-----------------------------------------------------------------------------
(* C36: the operations of a closed master *)

\* runCycle reaches its call of ethercrab_cyclic_tx_rx, or requestState its
\* first call of the driver
IssuesDriverCall ==
    \/ cyclePc = "idle" /\ cyclePc' = "awaiting"
    \/ rsPc = "idle" /\ rsPc' \in {"watchdog", "request"}

\* C36: no runCycle and no requestState of a master whose close() has
\* returned reaches a call of the driver.
C36_NoDriverCallAfterClose ==
    [][IssuesDriverCall => ~isClosed]_vars

\* a closed master that has made no state request has a buffer again, which
\* close() had dropped: a runCycle after close() has fetched it from the
\* driver and waits in ethercrab_cyclic_tx_rx
C36_CalledAfterCloseWitness ==
    /\ isClosed /\ closeLast = "returned" /\ ~dlOpen
    /\ rsPc = "idle" /\ rsCalls = 0
    /\ ~pdiBuffer.null
    /\ cyclePc = "awaiting"

-----------------------------------------------------------------------------
(* C37: events after close *)

\* C37: no step of a closed master emits a mailboxError or an emergency event
\* or changes a stored mailbox toggle, the completion of a mailbox check that
\* was in flight when close() was called included.
C37_NoEventOrToggleAfterClose ==
    [][isClosed => /\ mbEvents' = mbEvents
                   /\ emEvents' = emEvents
                   /\ mailboxToggleBits' = mailboxToggleBits]_vars

\* two checks of slave 0 were in flight at close(); the last to complete
\* returned -2, none has emitted an event or stored a toggle
C37_InFlightWitness ==
    /\ isClosed /\ closeLast = "returned"
    /\ mbTasks = << >>
    /\ Len(mbPolls[0]) = 2
    /\ ~mbLast.rejected /\ mbLast.result = -2
    /\ mbEvents = << >>
    /\ mailboxToggleBits[0] = NoToggle

-----------------------------------------------------------------------------
(* C38: the record of the last emitted emergency *)

\* C38: the record of every slave is the last emergency event emitted for
\* that slave, and no record at all when none was emitted: a record changes
\* only with an event of its slave, and is not cleared by a read without
\* emergency, by the event of another slave, or by a stop and a new start of
\* the poll loop.
C38_RecordIsLastEmittedEvent ==
    \A i \in DOMAIN lastEmergencySlave :
        lastEmergencySlave[i] = LastEmitted(emEvents, i)

\* the record of slave 0 has outlived a new start of the loop, a read
\* without emergency and an event of slave 1
C38_KeptWitness ==
    /\ timerCount >= 3
    /\ emergencyPollingInterval
    /\ emReads = 3
    /\ Len(emEvents) = 2
    /\ emEvents[1].slaveId = 0 /\ emEvents[2].slaveId = 1
    /\ emLast.read = NoEmergency
    /\ lastEmergencySlave[0] = emEvents[1]

-----------------------------------------------------------------------------
(* C39: the mappings of a discovered description *)

\* the mappings the mapping engine builds from the discovered description
DiscoveredMappings == buildProcessDataMappings(discovered)

\* the mappings that carry the name of the variable discovery generated for
\* entry e of slave i, are owned by slave i and lie at the byte of the PDI
\* discovery gave the entry (for an input, behind the outputs half)
MappingsOfEntry(i, e) ==
    LET entry == discovered.slaves[i].entries[e]
        half  == IF entry.sm = 3 THEN discovered.processImage.outputs.byteSize ELSE 0
    IN  { k \in 1..Len(DiscoveredMappings) :
            /\ DiscoveredMappings[k].variableName =
                   << discovered.slaves[i].name, entry.name >>
            /\ DiscoveredMappings[k].isInput = (entry.sm = 3)
            /\ DiscoveredMappings[k].slaveIndex = i
            /\ DiscoveredMappings[k].pdiByteOffset = half + entry.pdiOffset }

\* C39: every input or output entry of every slave of a discovered
\* description has exactly one mapping, owned by its slave and at the byte of
\* the PDI that discovery assigned to the entry.
C39_EveryDiscoveredVariableIsMapped ==
    dscLast = "found" =>
        \A i \in 1..Len(discovered.slaves) :
            \A e \in 1..Len(discovered.slaves[i].entries) :
                discovered.slaves[i].entries[e].sm \in {2, 3} =>
                    Cardinality(MappingsOfEntry(i, e)) = 1

\* two slaves of the same name were found, each with three inputs: six
\* variables, three mappings, none of them owned by the first slave
C39_SameNameWitness ==
    /\ dscLast = "found"
    /\ Len(discovered.slaves) = 2
    /\ discovered.slaves[1].name = discovered.slaves[2].name
    /\ Len(discovered.processImage.inputs.variables) = 6
    /\ Len(DiscoveredMappings) = 3
    /\ \A k \in 1..3 : DiscoveredMappings[k].slaveIndex = 2

-----------------------------------------------------------------------------
(* C40: the loops of one controller *)

\* the calls of runCycleLoop() that are in cycleFn()
InCycleFn == { l \in 1..Len(loops) : loops[l] = "cycleFn" }

\* C40: at most one call of runCycleLoop() of the controller is alive, so at
\* most one is executing cycleFn.
C40_AtMostOneLoop ==
    /\ Len(loops) <= 1
    /\ Cardinality(InCycleFn) <= 1

\* the flag is set and two calls of runCycleLoop() are in cycleFn()
C40_TwoLoopsWitness ==
    /\ running
    /\ Len(loops) = 2
    /\ InCycleFn = {1, 2}

=============================================================================
